---- MODULE Spec2Model ----
(***************************************************************************)
(* Execution lifecycle of the Apstra provisioning framework                *)
(* (src/tools/python/utils.py): run_apaf_terraform, the Scope_Manager      *)
(* methods it drives (blocked_executions, manage_execution_dirs,           *)
(* run_terraform, revert_execution, commit_check, deploy_bp, exit_manager) *)
(* and the on-disk state they keep per project.                            *)
(*                                                                         *)
(* One OS process is one user-started run_apaf_terraform call plus the     *)
(* runs exit_manager launches recursively.  `runs` lists the activations   *)
(* of run_apaf_terraform of the current process in launch order; exactly   *)
(* one of them is executing, its callers wait inside exit_manager.         *)
(***************************************************************************)
EXTENDS Integers, Sequences, FiniteSets, TLC

\* ------------------------------------------------------------------ bounds
MaxRuns == 2      \* user-started processes explored
MaxFrames == 3    \* run_apaf_terraform activations per process
MaxInput == 2     \* distinct contents of the project's input tree

\* ------------------------------------------------------- program constants
threshold == 50   \* manage_execution_dirs(stage, threshold=50)

NoFile == 0       \* a file or directory that does not exist

list_successful_exit_codes == {"USER_TF_EXEC_COMMIT", "USER_TF_EXEC_DESTROY"}

\* Variants used to test the sensitivity of the properties below: the commit
\* test with the no-changes code, the commit test without the post-rollback
\* code, the launch test without the execution-error code.
successful_execution_with_no_changes ==
    {"USER_TF_EXEC_COMMIT", "USER_TF_EXEC_DESTROY", "TF_PLAN_NO_CHANGES_POST_ROLLBACK",
     "TF_PLAN_NO_CHANGES"}

successful_execution_without_post_rollback ==
    {"USER_TF_EXEC_COMMIT", "USER_TF_EXEC_DESTROY"}

rollback_exit_codes_user_only == {"USER_REVERT"}

\* exit_manager: the codes for which the wip tree is committed
successful_execution ==
    {"USER_TF_EXEC_COMMIT", "USER_TF_EXEC_DESTROY", "TF_PLAN_NO_CHANGES_POST_ROLLBACK"}

\* exit_manager: the codes that trigger a follow-up execution
rollback_exit_codes == {"USER_REVERT", "TF_EXEC_W_ERRORS_REVERT"}

exit_messages ==
    {"USER_SILENT_EXIT", "USER_REVERT", "TF_PLAN_W_ERRORS", "TF_PLAN_NO_CHANGES",
     "TF_PLAN_NO_CHANGES_POST_ROLLBACK", "USER_TF_EXEC_ABORTED",
     "TF_EXEC_NOT_APPLY_DESTROY", "TF_EXEC_W_ERRORS_REVERT",
     "TF_EXEC_W_ERRORS_DESTROY", "USER_TF_EXEC_COMMIT", "USER_TF_EXEC_DESTROY",
     "BLOCKED_EXECUTIONS"}

Commands == {"apply", "destroy", "other"}
post_commit_actions == {"commit", "revert"}

VARIABLES
    runs,      \* activations of run_apaf_terraform in this process
    proc,      \* "idle", "running", "exit0" (sys.exit(0) or normal return),
               \* "exit1" (sys.exit(1)), "crash"
    nruns,     \* user-started processes so far
    fs,        \* on-disk and remote state of the project the scope points at
    other,     \* the same state of the other project
    scope_post_rollback,  \* post_rollback as persisted in scope.yml
    commit_call,  \* one call of commit_wip_executions, step by step
    rotation,  \* the wip tree over a sequence of manage_execution_dirs calls
    revert_call,  \* one call of revert_execution, step by step
    cleanup,   \* one call of remove_non_bp_added, step by step
    voyager,   \* the revisions of one blueprint over a sequence of commits
    operation, \* the blueprint operations of one execution, request by request
    diffing,   \* one call of get_non_bp_changes
    history,   \* one reading of the rollback candidates of a project
    extraction \* the restore of the input tree in one revert_execution

vars == <<runs, proc, nruns, fs, other, scope_post_rollback>>

\* The functions followed step by step each have a specification of their
\* own; a variable that a specification does not follow stays at Unused.
calls == <<commit_call, rotation, revert_call, cleanup, voyager, operation, diffing,
          history, extraction>>

Unused == [pc |-> "unused"]

\* A project with no execution yet.
FreshProject ==
    [ executions |-> <<>>,      \* output/executions/execution_0, execution_1, ...
      blocked    |-> FALSE,     \* output/executions/__blocked__ exists
      wip        |-> [exists |-> FALSE, dirs |-> <<>>, rollback |-> NoFile,
                      blocked |-> FALSE],   \* output/executions/__wip__
      input      |-> 1,         \* contents of the live input tree
      reverted   |-> [dir |-> FALSE, file |-> FALSE],  \* input_tgz_reverted_path/file
      archive    |-> <<>>,      \* what the last <date>_archive.tgz holds
      archived   |-> FALSE,     \* whether an archive file has been written
      bp         |-> [uncommitted |-> FALSE, errors |-> FALSE] ]  \* remote blueprint

\* A project after its first apply was committed: what one successful run of
\* the orchestrator leaves behind on a fresh project.
DeployedProject ==
    [FreshProject EXCEPT
        !.executions = <<[execution_id |-> 1, exit_code |-> "USER_TF_EXEC_COMMIT",
                          input |-> 1, reverted |-> FALSE]>>]

\* Scope_Manager.__init__ / initialize_vars, and the locals of run_apaf_terraform.
NewFrame(cmd, ia, pr, act) ==
    [ pc                       |-> "blocked_check",
      interactive              |-> ia,
      post_rollback            |-> pr,
      terraform_command        |-> cmd,
      is_apply_destroy         |-> cmd \in {"apply", "destroy"},
      post_commit_action       |-> act,
      first_execution_reverted |-> FALSE,
      exit_code                |-> "INIT",
      execution_id             |-> 0,        \* 0: not assigned yet
      project_execution_history |-> <<>>,
      site                     |-> "none",   \* call site of the pending revert/exit
      arg                      |-> "none",   \* exit code passed to exit_manager
      uncommitted_bps          |-> FALSE,    \* sm.uncommitted_bps is non-empty
      uncommitted_bps_w_errors |-> FALSE,    \* sm.uncommitted_bps_w_errors is non-empty
      non_bp_changes           |-> FALSE,    \* list_non_bp_menus_w_changes_last_exec
      ev                       |-> {} ]      \* what this activation has done so far

Ended == {"exited", "crashed", "returned"}

Active(f) == f.pc \notin Ended /\ f.pc # "in_exit_manager"

\* The activation that is executing.
Cur == CHOOSE i \in DOMAIN runs : Active(runs[i])

Running == proc = "running" /\ \E i \in DOMAIN runs : Active(runs[i])

At(p) == Running /\ runs[Cur].pc = p

SetCur(f) == [runs EXCEPT ![Cur] = f]

Init ==
    /\ runs = <<>>
    /\ proc = "idle"
    /\ nruns = 0
    /\ fs \in {FreshProject, DeployedProject}
    /\ other = FreshProject
    /\ scope_post_rollback = FALSE
    /\ commit_call = Unused
    /\ rotation = Unused
    /\ revert_call = Unused
    /\ cleanup = Unused
    /\ voyager = Unused
    /\ operation = Unused
    /\ diffing = Unused
    /\ history = Unused
    /\ extraction = Unused

RECURSIVE MaxOf(_)
MaxOf(S) == IF S = {} THEN 0
            ELSE LET x == CHOOSE y \in S : TRUE
                     m == MaxOf(S \ {x})
                 IN  IF x >= m THEN x ELSE m

\* Input contents are numbered in the order the user writes them: an edit
\* yields a content that did not exist before.
InputsOf(p) == {p.input} \cup {p.executions[i].input : i \in DOMAIN p.executions}

LatestInput == MaxOf(InputsOf(fs) \cup InputsOf(other))

\* main entry: a user starts the orchestrator.  The user may have edited the
\* input tree, somebody may have staged changes in the blueprint meanwhile,
\* and the scope may be switched to the other project on the command line.
StartUserRun(cmd, ia, act, edit, switch, staged) ==
    /\ proc # "running"
    /\ nruns < MaxRuns
    /\ edit => LatestInput < MaxInput
    /\ nruns' = nruns + 1
    /\ proc' = "running"
    /\ LET here == IF switch THEN other ELSE fs
       IN  /\ fs' = [here EXCEPT !.input = IF edit THEN LatestInput + 1 ELSE @,
                                 !.bp.uncommitted = @ \/ staged]
           /\ other' = IF switch THEN fs ELSE other
    /\ runs' = <<NewFrame(cmd, ia, scope_post_rollback, act)>>
    /\ UNCHANGED scope_post_rollback

\* main entry with arguments that are not of the form key=value
\* (parse_input_args) or with a command that is missing or is not an alias of
\* terraform_commands (get_terraform_command): the error is logged and the
\* process ends with sys.exit(1), before the scope is read.
InvalidArguments(invalid) ==
    /\ proc # "running"
    /\ nruns < MaxRuns
    /\ nruns' = nruns + 1
    /\ proc' = "exit1"
    /\ runs' = <<>>
    /\ UNCHANGED <<fs, other, scope_post_rollback>>

\* ------------------------------------------------------------ control flow
\* sm.exit_manager(code) called from `site`.
GoExit(f, code, site) == [f EXCEPT !.pc = "exit_manager", !.arg = code, !.site = site]

\* sm.revert_execution(revert_to_last_exec = True) followed by
\* sm.exit_manager(code), both called from `site`.
GoRevert(f, code, site) == [f EXCEPT !.pc = "revert_execution", !.arg = code, !.site = site]

\* Where the caller goes on when exit_manager returns instead of exiting.
ResumePc(f) ==
    CASE f.site = "prompt_revert" -> "run_terraform"
      [] f.site = "run_terraform" -> IF f.is_apply_destroy THEN "post_scan" ELSE "return"
      [] f.site = "build_errors"  -> "post_exec"
      [] f.site = "commit_check"  -> "post_menu"
      [] f.site = "reconfirm"     -> "deploy"
      [] OTHER                    -> "return"

HasParent(i) == \E j \in 1..(i - 1) : runs[j].pc = "in_exit_manager"

Parent(i) == CHOOSE j \in 1..(i - 1) :
                /\ runs[j].pc = "in_exit_manager"
                /\ \A k \in 1..(i - 1) : runs[k].pc = "in_exit_manager" => k <= j

\* sys.exit(0): SystemExit is not an Exception, so no handler on the stack
\* stops it and the process ends.
SysExit(rs) ==
    [i \in DOMAIN rs |-> IF rs[i].pc \in Ended THEN rs[i] ELSE [rs[i] EXCEPT !.pc = "exited"]]

\* An Exception leaves run_apaf_terraform (its try has only a finally).  When
\* the run was launched by exit_manager the caller's `except Exception`
\* logs it and exit_manager returns; otherwise the process dies.
Unwind(f) ==
    LET rs == [runs EXCEPT ![Cur] = [f EXCEPT !.pc = "crashed"]]
    IN  IF HasParent(Cur)
        THEN /\ runs' = [rs EXCEPT ![Parent(Cur)].pc = ResumePc(rs[Parent(Cur)])]
             /\ proc' = proc
        ELSE /\ runs' = rs
             /\ proc' = "crash"

Min(a, b) == IF a <= b THEN a ELSE b

\* Execution ids are apaf_id_<epoch seconds>: an id handed out now is later
\* than every id handed out before.  Now is the latest id still in existence.
IdsOf(dirs) == {dirs[i].execution_id : i \in DOMAIN dirs}

Now == MaxOf(IdsOf(fs.executions) \cup IdsOf(fs.wip.dirs) \cup IdsOf(fs.archive)
             \cup IdsOf(other.executions) \cup IdsOf(other.wip.dirs)
             \cup IdsOf(other.archive) \cup IdsOf(runs))

NoWip == [exists |-> FALSE, dirs |-> <<>>, rollback |-> NoFile, blocked |-> FALSE]

\* ----------------------------------------------------------------- actions
\* run_apaf_terraform: sm.blocked_executions() and the post_rollback
\* adjustment that follows it.
BlockedCheck(ans) ==
    /\ At("blocked_check")
    /\ LET f == runs[Cur]
           unblock == f.interactive /\ ans = "yes"   \* prompt_unblock_executions
           overridden == IF f.post_rollback /\ f.terraform_command # "apply"
                         THEN {"command_overridden"} ELSE {}
           go == [f EXCEPT !.pc = "menu",
                           !.terraform_command = IF f.post_rollback THEN "apply" ELSE @,
                           !.post_commit_action = IF f.post_rollback THEN "commit" ELSE @]
       IN  IF fs.blocked /\ ~unblock
           THEN /\ runs' = SetCur(GoExit([f EXCEPT !.ev = @ \cup {"blocked"}],
                                         "BLOCKED_EXECUTIONS", "blocked_check"))
                /\ fs' = fs
           ELSE /\ runs' = SetCur([go EXCEPT !.ev = (IF fs.blocked THEN @ \cup {"unblocked"}
                                                    ELSE @) \cup overridden])
                /\ fs' = [fs EXCEPT !.blocked = FALSE]
    /\ UNCHANGED <<proc, nruns, other, scope_post_rollback>>

\* run_apaf_terraform: one round of the execution-plan menu.
Menu(opt, sel, ans) ==
    /\ At("menu")
    /\ LET f == runs[Cur]
           o == IF f.interactive THEN opt ELSE 1
           confirmed == f.interactive /\ ans = "yes"     \* prompt_destroy
       IN  CASE o = 1 /\ f.terraform_command = "destroy" /\ ~confirmed ->
                    \* the loop starts over; without a user it does so for ever
                    /\ ~f.interactive
                    /\ runs' = SetCur([f EXCEPT !.pc = "menu_loop"])
                    /\ UNCHANGED <<fs, other>>
             [] o = 1 /\ (f.terraform_command # "destroy" \/ confirmed) ->
                    /\ runs' = SetCur([f EXCEPT !.pc = "initial_stage"])
                    /\ UNCHANGED <<fs, other>>
             [] o = 5 ->
                    \* update_vars({'project': ...}): every path of sm moves
                    /\ fs' = other
                    /\ other' = fs
                    /\ runs' = runs
             [] o = 6 ->
                    /\ sel # f.terraform_command
                    /\ runs' = SetCur([f EXCEPT !.terraform_command = sel])
                    /\ UNCHANGED <<fs, other>>
             [] o = 9 ->
                    /\ runs' = SetCur(GoExit(f, "USER_SILENT_EXIT", "menu"))
                    /\ UNCHANGED <<fs, other>>
    /\ UNCHANGED <<proc, nruns, scope_post_rollback>>

\* run_apaf_terraform: replace_directory_contents(wip, executions) and
\* sm.manage_execution_dirs("initial_stage").
InitialStage ==
    /\ At("initial_stage")
    /\ LET f == runs[Cur]
           execution_id == Now + 1
           copied == fs.executions                   \* wip now mirrors executions
           kept == SubSeq(copied, 1, Min(Len(copied), threshold))
           keep_reverted == f.post_rollback /\ Len(copied) > 0 /\ fs.reverted.file
           execution_0 == [execution_id |-> execution_id,
                           exit_code    |-> f.exit_code,
                           input        |-> fs.input,
                           reverted     |-> keep_reverted]
       IN  /\ fs' = [fs EXCEPT
                  !.wip = [exists   |-> TRUE,
                           dirs     |-> <<execution_0>> \o kept,
                           rollback |-> IF Len(copied) > 0 THEN copied[1].input ELSE NoFile,
                           blocked  |-> fs.blocked],
                  !.reverted = IF keep_reverted THEN [dir |-> FALSE, file |-> FALSE]
                               ELSE [@ EXCEPT !.dir = TRUE]]
           /\ runs' = SetCur([f EXCEPT
                  !.pc = IF f.is_apply_destroy THEN "pre_scan" ELSE "run_terraform",
                  !.execution_id = execution_id,
                  !.project_execution_history = fs.executions])
    /\ UNCHANGED <<proc, nruns, other, scope_post_rollback>>

\* Scope_Manager.exit_manager(exit_code), commit_wip_executions and
\* manage_execution_dirs('destroy_final_stage') included.
\*   tgz: whether create_tgz_from_dir wrote the archive ("fail": it logged an
\*        error and returned)
ExitManager(tgz) ==
    /\ At("exit_manager")
    /\ LET f == runs[Cur]
           code == f.arg
           has_data == fs.wip.exists /\ Len(fs.wip.dirs) > 0
           dirs1 == IF has_data THEN [fs.wip.dirs EXCEPT ![1].exit_code = code]
                    ELSE fs.wip.dirs
           commit == code \in successful_execution /\ fs.wip.exists
           committed == IF commit THEN dirs1 ELSE fs.executions
           sentinel == IF commit THEN fs.wip.blocked
                       ELSE fs.blocked \/ code = "BLOCKED_EXECUTIONS"
           destroy == code = "USER_TF_EXEC_DESTROY"
           launch == ~f.first_execution_reverted /\ code \in rollback_exit_codes
           fs1 == [fs EXCEPT
                     !.wip = NoWip,
                     !.executions = IF destroy THEN <<>> ELSE committed,
                     !.blocked = IF destroy THEN FALSE ELSE sentinel,
                     !.archive = IF destroy /\ tgz = "ok" THEN committed ELSE @,
                     !.archived = @ \/ (destroy /\ tgz = "ok"),
                     !.reverted = IF launch THEN @ ELSE [dir |-> FALSE, file |-> FALSE]]
           g == [f EXCEPT !.exit_code = code]
       IN  /\ fs' = fs1
           /\ IF launch
              THEN /\ Len(runs) < MaxFrames
                   /\ runs' = Append(SetCur([g EXCEPT !.pc = "in_exit_manager"]),
                                     NewFrame("apply", FALSE, TRUE, f.post_commit_action))
                   /\ scope_post_rollback' = TRUE
                   /\ proc' = proc
              ELSE /\ runs' = SysExit(SetCur(g))
                   /\ scope_post_rollback' = FALSE
                   /\ proc' = "exit0"
    /\ UNCHANGED <<nruns, other>>

\* run_apaf_terraform returns without calling exit_manager; a caller inside
\* exit_manager then reaches its sys.exit(0).
Return ==
    /\ At("return")
    /\ runs' = SysExit(SetCur([runs[Cur] EXCEPT !.pc = "returned"]))
    /\ proc' = "exit0"
    /\ UNCHANGED <<nruns, fs, other, scope_post_rollback>>

\* run_apaf_terraform: sm.scan_blueprints(warning = True) before the plan and
\* the test of sm.uncommitted_bps that follows it.
PreScan(decline) ==
    /\ At("pre_scan")
    /\ LET f == runs[Cur]
           g == [f EXCEPT !.uncommitted_bps = fs.bp.uncommitted,
                          !.uncommitted_bps_w_errors = fs.bp.errors,
                          !.ev = IF fs.bp.uncommitted THEN @ \cup {"pre_uncommitted"} ELSE @]
       IN  runs' = SetCur(
             IF f.interactive /\ decline                   \* prompt_exit answered "no"
             THEN GoExit(g, "USER_SILENT_EXIT", "prompt_exit")
             ELSE [g EXCEPT !.pc = IF g.uncommitted_bps THEN "prompt_revert"
                                   ELSE "run_terraform"])
    /\ UNCHANGED <<proc, nruns, fs, other, scope_post_rollback>>

\* Scope_Manager.prompt_revert
PromptRevert(ans) ==
    /\ At("prompt_revert")
    /\ LET f == runs[Cur]
       IN  runs' = SetCur(IF ~f.interactive \/ ans = "yes"
                          THEN GoRevert(f, "USER_REVERT", "prompt_revert")
                          ELSE GoExit(f, "USER_SILENT_EXIT", "prompt_revert"))
    /\ UNCHANGED <<proc, nruns, fs, other, scope_post_rollback>>

\* get_project_rollback_history: the successful executions other than the
\* current one (the history is kept sorted by execution_id, latest first).
project_execution_history_for_rollback(f) ==
    SelectSeq(f.project_execution_history,
              LAMBDA e : e.exit_code \in list_successful_exit_codes
                         /\ e.execution_id # f.execution_id)

\* get_rollback_execution_choice("last"): the folder under wip that holds the
\* chosen execution exists.
wip_execution_rollback_path(f) ==
    /\ project_execution_history_for_rollback(f) # <<>>
    /\ fs.wip.exists
    /\ \E i \in DOMAIN fs.wip.dirs :
          fs.wip.dirs[i].execution_id =
              project_execution_history_for_rollback(f)[1].execution_id

\* The try blocks around the call sites of revert_execution: run_terraform
\* and print_panel_commit_check log an Exception and return.
CatchPc(f) ==
    CASE f.site = "run_terraform" -> IF f.is_apply_destroy THEN "post_scan" ELSE "return"
      [] f.site = "commit_check"  -> "post_menu"
      [] OTHER                    -> "uncaught"

\* Scope_Manager.revert_execution(revert_to_last_exec = True)
\*   revisions: what get_bp_revision_list returns ("fail": None)
\*   api: whether revert_bp / delete_bps took effect
RevertExecution(revisions, api) ==
    /\ At("revert_execution")
    /\ LET f == runs[Cur]
           first == project_execution_history_for_rollback(f) = <<>>
           skip == ~first /\ ~wip_execution_rollback_path(f)
           has_tgz == fs.wip.exists /\ Len(fs.wip.dirs) > 0
           copy_fails == ~first /\ has_tgz /\ ~fs.reverted.dir   \* shutil.copy2
           restore == ~first /\ fs.wip.rollback # NoFile
           list_fails == fs.bp.uncommitted /\ revisions = "fail" \* len(None)
           undone == fs.bp.uncommitted /\ api = "ok"
           g == [f EXCEPT !.first_execution_reverted = first,
                          !.ev = @ \cup {"revert"}]
           h == [g EXCEPT !.uncommitted_bps = fs.bp.uncommitted,
                          !.uncommitted_bps_w_errors = fs.bp.errors]
           raised(x) == IF CatchPc(x) = "uncaught"
                        THEN Unwind([x EXCEPT !.ev = @ \cup {"revert_raised"}])
                        ELSE /\ runs' = SetCur([x EXCEPT !.pc = CatchPc(x),
                                                         !.ev = @ \cup {"revert_raised"}])
                             /\ proc' = proc
       IN  CASE skip ->
                    /\ runs' = SetCur([g EXCEPT !.pc = "exit_manager",
                                                !.ev = @ \cup {"revert_skipped"}])
                    /\ UNCHANGED <<fs, proc>>
             [] ~skip /\ copy_fails ->
                    /\ raised(g)
                    /\ fs' = fs
             [] ~skip /\ ~copy_fails /\ list_fails ->
                    /\ raised(h)
                    /\ fs' = [fs EXCEPT
                          !.reverted.file = @ \/ (~first /\ has_tgz),
                          !.input = IF restore THEN fs.wip.rollback ELSE @]
             [] ~skip /\ ~copy_fails /\ ~list_fails ->
                    /\ runs' = SetCur([h EXCEPT !.pc = "exit_manager",
                           !.ev = @ \cup (IF undone THEN {"remote_change"} ELSE {})])
                    /\ proc' = proc
                    /\ fs' = [fs EXCEPT
                          !.reverted.file = @ \/ (~first /\ has_tgz),
                          !.input = IF restore THEN fs.wip.rollback ELSE @,
                          !.bp = IF undone THEN [uncommitted |-> FALSE, errors |-> FALSE]
                                 ELSE @]
    /\ UNCHANGED <<nruns, other, scope_post_rollback>>

\* run_apaf_terraform up to sm.run_terraform(), then run_terraform with
\* generate_terraform_plan, up to the point where the command is executed.
\*   plan_rc: exit status of `terraform plan`; show_ok: `terraform show`
\*   succeeded; changes: the plan holds resource changes; opt: menu choice
RunTerraform(plan_rc, show_ok, changes, opt) ==
    /\ At("run_terraform")
    /\ LET f == runs[Cur]
           has_tgz == fs.wip.exists /\ Len(fs.wip.dirs) > 0
           non_bp == f.is_apply_destroy /\ has_tgz
                     /\ fs.wip.dirs[1].input # fs.wip.rollback
           g == [f EXCEPT !.non_bp_changes = non_bp]
           planned == [g EXCEPT !.ev = @ \cup {"plan"}
                                      \cup (IF plan_rc # 0 THEN {"plan_failed"} ELSE {})
                                      \cup (IF plan_rc = 0 /\ show_ok /\ ~changes
                                            THEN {"no_changes"} ELSE {})]
           tfplan_changes == show_ok /\ changes
           o == IF f.interactive THEN opt ELSE 1
       IN  runs' = SetCur(
             CASE f.terraform_command = "other" ->
                      GoExit(g, "TF_EXEC_NOT_APPLY_DESTROY", "run_terraform")
               [] f.terraform_command # "other" /\ show_ok /\ plan_rc # 0 ->
                      GoExit(planned, "TF_PLAN_W_ERRORS", "generate_terraform_plan")
               [] f.terraform_command # "other" /\ ~(show_ok /\ plan_rc # 0)
                  /\ ~tfplan_changes ->
                      GoExit(planned,
                             IF f.post_rollback THEN "TF_PLAN_NO_CHANGES_POST_ROLLBACK"
                             ELSE "TF_PLAN_NO_CHANGES", "run_terraform")
               [] f.terraform_command # "other" /\ ~(show_ok /\ plan_rc # 0)
                  /\ tfplan_changes ->
                      IF o = 2 THEN GoExit(planned, "USER_TF_EXEC_ABORTED", "run_terraform")
                      ELSE [planned EXCEPT !.pc = IF f.terraform_command = "destroy"
                                                  THEN "delete_bps" ELSE "execute"])
    /\ UNCHANGED <<proc, nruns, fs, other, scope_post_rollback>>

\* The blueprints listed in the project's blueprints file, the projects of
\* the domain, the parents the project declares and the blueprints listed in
\* each parent's blueprints file.
blueprints == {"bp_local", "bp_parent"}

projects_list == {"project", "parent"}

parent_projects_list == {"parent"}

parent_blueprints == [project \in parent_projects_list |-> {"bp_parent"}]

\* A variant of the test below that takes no blueprint for inherited.
inherited_bp_never(bp_name) == FALSE

\* run_terraform: the test that keeps a blueprint created in a parent project
\* out of the destroy.
inherited_bp(bp_name) ==
    \E project \in parent_projects_list :
        project \in projects_list /\ bp_name \in parent_blueprints[project]

delete_tag == [bp_name \in blueprints |->
                  IF bp_name = "bp_local" THEN "delete_bps(bp_local)"
                  ELSE "delete_bps(bp_parent)"]

\* run_terraform: delete_bps([bp_name]) for every blueprint of a destroy that
\* is not inherited, before the plan is executed.
DeleteBps ==
    /\ At("delete_bps")
    /\ LET f == runs[Cur]
           deleted == {delete_tag[bp_name] :
                          bp_name \in {b \in blueprints : ~inherited_bp(b)}}
       IN  runs' = SetCur([f EXCEPT !.pc = "execute",
                                    !.ev = @ \cup deleted \cup {"remote_change"}])
    /\ UNCHANGED <<proc, nruns, fs, other, scope_post_rollback>>

\* run_terraform: the execution of the plan and the evaluation of its exit
\* status.
\*   rc: exit status; staged, errors: what the execution left in the blueprint
Execute(rc, staged, errors) ==
    /\ At("execute")
    /\ LET f == runs[Cur]
           destroy == f.terraform_command = "destroy"
           g == [f EXCEPT !.ev = @ \cup {"execute", "remote_change"}
                                \cup (IF rc # 0 THEN {"execute_failed"} ELSE {})]
       IN  /\ fs' = [fs EXCEPT !.bp =
                        IF destroy   \* deleted, unless inherited or the delete failed
                        THEN [uncommitted |-> staged, errors |-> staged /\ errors]
                        ELSE [uncommitted |-> @.uncommitted \/ staged,
                              errors |-> @.errors \/ (staged /\ errors)]]
           /\ runs' = SetCur(
                CASE rc = 0 ->
                        [g EXCEPT !.pc = IF f.is_apply_destroy THEN "post_scan" ELSE "return"]
                  [] rc # 0 /\ f.post_rollback ->
                        GoExit(g, "BLOCKED_EXECUTIONS", "run_terraform")
                  [] rc # 0 /\ ~f.post_rollback /\ destroy ->
                        GoExit(g, "TF_EXEC_W_ERRORS_DESTROY", "run_terraform")
                  [] rc # 0 /\ ~f.post_rollback /\ ~destroy ->
                        GoRevert(g, "TF_EXEC_W_ERRORS_REVERT", "run_terraform"))
    /\ UNCHANGED <<proc, nruns, other, scope_post_rollback>>

\* run_apaf_terraform: sm.scan_blueprints() after the execution and the
\* build-error test on the uncommitted blueprints.
PostScan ==
    /\ At("post_scan")
    /\ LET f == runs[Cur]
           g == [f EXCEPT !.uncommitted_bps = fs.bp.uncommitted,
                          !.uncommitted_bps_w_errors = fs.bp.errors]
           build_errors == g.uncommitted_bps /\ g.post_commit_action = "commit"
                           /\ g.uncommitted_bps_w_errors
           h == [g EXCEPT !.ev = @ \cup {"build_errors"}]
       IN  runs' = SetCur(
             CASE ~build_errors -> [g EXCEPT !.pc = "post_exec"]
               [] build_errors /\ f.post_rollback ->
                      GoExit(h, "BLOCKED_EXECUTIONS", "build_errors")
               [] build_errors /\ ~f.post_rollback /\ f.terraform_command = "destroy" ->
                      GoExit(h, "TF_EXEC_W_ERRORS_DESTROY", "build_errors")
               [] build_errors /\ ~f.post_rollback /\ f.terraform_command # "destroy" ->
                      GoRevert(h, "TF_EXEC_W_ERRORS_REVERT", "build_errors"))
    /\ UNCHANGED <<proc, nruns, fs, other, scope_post_rollback>>

\* run_apaf_terraform: the test that opens the post-execution plan.
PostExec ==
    /\ At("post_exec")
    /\ LET f == runs[Cur]
           post == \/ f.terraform_command = "destroy"
                   \/ (f.terraform_command = "apply"
                       /\ (f.non_bp_changes \/ f.uncommitted_bps))
       IN  runs' = SetCur(
             IF post
             THEN [f EXCEPT !.pc = IF f.uncommitted_bps THEN "commit_check" ELSE "post_menu"]
             ELSE GoExit(f, "USER_TF_EXEC_COMMIT", "final"))
    /\ UNCHANGED <<proc, nruns, fs, other, scope_post_rollback>>

\* Scope_Manager.commit_check(display) with print_panel_commit_check.
\*   ans: the user's answer; device_error: the commit check reports an error
CommitCheck(ans, device_error) ==
    /\ At("commit_check")
    /\ LET f == runs[Cur]
           display == f.terraform_command = "apply" /\ ~f.post_rollback
           checked == ~f.interactive \/ ans = "yes"       \* save_commit_check ran
           shown == f.interactive /\ ans = "yes" /\ display
           g == [f EXCEPT !.ev = IF checked /\ device_error
                                 THEN @ \cup {"device_error"} ELSE @]
       IN  runs' = SetCur(
             IF shown /\ device_error
             THEN GoRevert(g, "TF_EXEC_W_ERRORS_REVERT", "commit_check")
             ELSE [g EXCEPT !.pc = "post_menu"])
    /\ UNCHANGED <<proc, nruns, fs, other, scope_post_rollback>>

\* run_apaf_terraform: one round of the post-events menu.
PostMenu(opt, ans) ==
    /\ At("post_menu")
    /\ LET f == runs[Cur]
           o == IF f.interactive THEN opt ELSE 1
           revert == f.terraform_command # "destroy" /\ f.post_commit_action = "revert"
       IN  CASE o = 1 /\ ~revert ->
                    runs' = SetCur([f EXCEPT !.pc = "deploy"])
             [] o = 1 /\ revert ->                 \* prompt_reconfirm_revert
                    /\ ~f.interactive \/ ans = "yes"
                    /\ runs' = SetCur(GoRevert(f, "USER_REVERT", "reconfirm"))
             [] o = 3 ->
                    /\ f.terraform_command # "destroy"
                    /\ runs' = SetCur([f EXCEPT !.post_commit_action =
                                          IF @ = "commit" THEN "revert" ELSE "commit"])
    /\ UNCHANGED <<proc, nruns, fs, other, scope_post_rollback>>

\* deploy_bp: how the commit request ends when every initial PUT is answered
\* `put` and every polling PUT is answered `poll`.
deploy_bp(put, poll) ==
    CASE put = 202 /\ poll = 202 -> "committed"
      [] put = 202 /\ poll = 409 -> "poll_limit"     \* max_poll_attempts exhausted
      [] put = 202 /\ poll \notin {202, 409} -> "http_error"
      [] put = 409 -> "max_retries"                  \* max_retries exhausted
      [] OTHER -> "http_error"

\* run_apaf_terraform: deploy_bp for the uncommitted blueprints and the final
\* sm.exit_manager call.
Deploy(put, poll) ==
    /\ At("deploy")
    /\ LET f == runs[Cur]
           outcome == deploy_bp(put, poll)
           done == f.uncommitted_bps /\ outcome = "committed"
           g == [f EXCEPT !.ev = IF f.uncommitted_bps
                                 THEN @ \cup {"deploy"}
                                        \cup (IF done THEN {"remote_change"}
                                              ELSE {"deploy_failed"})
                                 ELSE @]
       IN  /\ fs' = [fs EXCEPT !.bp.uncommitted = IF done THEN FALSE ELSE @]
           /\ runs' = SetCur(GoExit(g, IF f.terraform_command = "destroy"
                                       THEN "USER_TF_EXEC_DESTROY"
                                       ELSE "USER_TF_EXEC_COMMIT", "final"))
    /\ UNCHANGED <<proc, nruns, other, scope_post_rollback>>

\* ------------------------------------------------------------------ claims
Frames == {runs[i] : i \in DOMAIN runs}

\* The frames exit_manager launched: every frame but the user's.
Launched == {runs[i] : i \in DOMAIN runs \ {1}}

\* The execution of an apply plan exited non-zero in a run that is not
\* post-rollback.
ApplyFailed(f) ==
    "execute_failed" \in f.ev /\ f.terraform_command = "apply" /\ ~f.post_rollback

\* C1: when the execution of an apply plan exits non-zero in a run that is
\* not post-rollback, the run goes through revert_execution and ends with
\* TF_EXEC_W_ERRORS_REVERT: it never reaches the blueprint commit and never
\* ends with USER_TF_EXEC_COMMIT, whatever happens inside the revert steps.
C1_ApplyFailureEndsInRevert ==
    \A f \in Frames :
        ApplyFailed(f) =>
            /\ f.pc # "deploy"
            /\ "deploy" \notin f.ev
            /\ f.exit_code \in {"INIT", "TF_EXEC_W_ERRORS_REVERT"}
            /\ f.exit_code = "TF_EXEC_W_ERRORS_REVERT" => "revert" \in f.ev
            /\ f.pc \in Ended => f.exit_code = "TF_EXEC_W_ERRORS_REVERT"

\* The re-execution did not succeed: its apply failed, it found build errors,
\* or it found the blueprints still uncommitted when it started.
ReExecutionFailed(f) ==
    f.ev \cap {"execute_failed", "build_errors", "pre_uncommitted"} # {}

\* C2: a post-rollback re-execution never launches another re-execution;
\* a re-execution that does not succeed (apply error, build errors, or
\* blueprints still uncommitted at its start) ends with BLOCKED_EXECUTIONS;
\* so at most one run is launched automatically per user-started run.
C2_NoSecondReExecution ==
    /\ Len(runs) <= 2
    /\ \A f \in Launched :
          /\ f.pc # "in_exit_manager"
          /\ ReExecutionFailed(f) =>
                /\ f.exit_code \in {"INIT", "BLOCKED_EXECUTIONS"}
                /\ f.pc \notin {"prompt_revert", "revert_execution", "crashed", "returned"}

\* A step in which some run invokes the plan tool or changes remote state.
PlansOrChangesRemote ==
    \E i \in DOMAIN runs' :
        \E t \in {"plan", "remote_change"} :
            /\ t \in runs'[i].ev
            /\ i \in DOMAIN runs => t \notin runs[i].ev

\* A step in which an interactive user confirms the unblocking.
HumanUnblocks ==
    /\ Running
    /\ runs[Cur].pc = "blocked_check"
    /\ runs[Cur].interactive
    /\ "unblocked" \in runs'[Cur].ev

\* A step that removes the sentinel of the project the scope points at
\* (a step that moves the scope to the other project removes nothing).
SentinelRemoved == other' = other /\ fs.blocked /\ ~fs'.blocked

\* C3: while the sentinel directory of a project exists, no run on that
\* project invokes the plan tool or makes a remote state-changing call, and
\* the sentinel is removed only when a human confirms in interactive mode.
C3_SentinelBlocksEveryRun ==
    [][/\ fs.blocked /\ other' = other => ~PlansOrChangesRemote
       /\ SentinelRemoved => HumanUnblocks]_vars

\* A step of a running process that pushes a new run on the stack.
Launches == proc = "running" /\ Len(runs') = Len(runs) + 1

\* C4: exit_manager launches a follow-up run exactly when the exit code is
\* USER_REVERT or TF_EXEC_W_ERRORS_REVERT and the run is not flagged as
\* reverted from an empty history; the follow-up is a non-interactive apply
\* with post_rollback set; nothing else launches a run.  The flag is set
\* exactly when the revert found no earlier successful execution.
C4_FollowUpExactlyOnRevertCodes ==
    [][/\ At("exit_manager")
          /\ runs[Cur].arg \in {"USER_REVERT", "TF_EXEC_W_ERRORS_REVERT"} =>
            (runs[Cur].first_execution_reverted <=>
                project_execution_history_for_rollback(runs[Cur]) = <<>>)
       /\ At("exit_manager") =>
            (Launches <=>
                /\ runs[Cur].arg \in {"USER_REVERT", "TF_EXEC_W_ERRORS_REVERT"}
                /\ ~runs[Cur].first_execution_reverted)
       /\ Launches =>
            /\ At("exit_manager")
            /\ LET n == runs'[Len(runs')]
               IN  /\ ~n.interactive
                   /\ n.post_rollback
                   /\ n.terraform_command = "apply"
                   /\ n.is_apply_destroy
                   /\ n.pc = "blocked_check"]_vars

\* A follow-up run has just been launched by a run that ended with an
\* execution-error revert.
C4_FollowUpLaunched ==
    /\ Len(runs) = 2
    /\ runs[1].exit_code = "TF_EXEC_W_ERRORS_REVERT"
    /\ runs[1].pc = "in_exit_manager"
    /\ ~runs[1].first_execution_reverted
    /\ runs[2].pc = "blocked_check"

\* A plan with changes was applied without error, the run is not
\* post-rollback, and the commit check that followed reported a device error.
DeviceErrorAfterApply(f) ==
    /\ "device_error" \in f.ev
    /\ "execute_failed" \notin f.ev
    /\ f.terraform_command = "apply"
    /\ ~f.post_rollback

\* C5: when a plan with changes applies successfully and the commit check
\* reports a device error, the run ends with TF_EXEC_W_ERRORS_REVERT (it goes
\* through revert_execution and never on to the commit), in interactive and
\* in non-interactive mode alike.
C5_DeviceErrorEndsInRevert ==
    \A f \in Frames :
        DeviceErrorAfterApply(f) =>
            /\ f.pc \notin {"post_menu", "deploy"}
            /\ "deploy" \notin f.ev
            /\ f.exit_code \in {"INIT", "TF_EXEC_W_ERRORS_REVERT"}
            /\ f.exit_code = "TF_EXEC_W_ERRORS_REVERT" => "revert" \in f.ev

\* C6: when the execution of a destroy plan exits non-zero in a run that is
\* not post-rollback, revert_execution runs before the run ends.
C6_DestroyFailureReverts ==
    \A f \in Frames :
        /\ "execute_failed" \in f.ev
        /\ f.terraform_command = "destroy"
        /\ ~f.post_rollback
        /\ f.exit_code # "INIT" \/ f.pc \in Ended
        => "revert" \in f.ev

\* C7: when the generation of the plan exits non-zero the run ends with
\* TF_PLAN_W_ERRORS and with no other code, and the plan is never executed.
C7_PlanFailureEndsInPlanErrors ==
    \A f \in Frames :
        "plan_failed" \in f.ev =>
            /\ f.exit_code \in {"INIT", "TF_PLAN_W_ERRORS"}
            /\ f.pc \in {"exit_manager", "exited"}
            /\ f.pc = "exit_manager" => f.arg = "TF_PLAN_W_ERRORS"
            /\ "execute" \notin f.ev

\* C8: when, after an apply, an uncommitted blueprint has build errors and the
\* post-commit action is "commit", the run performs revert_execution and
\* deploy_bp is never called.
C8_BuildErrorsRevertAndNeverDeploy ==
    \A f \in Frames :
        /\ "build_errors" \in f.ev
        /\ f.terraform_command = "apply"
        /\ ~f.post_rollback
        => /\ f.pc \notin {"post_exec", "commit_check", "post_menu", "deploy"}
           /\ "deploy" \notin f.ev
           /\ f.exit_code # "INIT" \/ f.pc \in Ended => "revert" \in f.ev

\* C9: when the retry protocol fails while a blueprint is being committed
\* (retries or polls exhausted, unexpected status), the run does not end with
\* USER_TF_EXEC_COMMIT and its wip tree is not committed as successful.
C9_DeployFailureIsNotSuccess ==
    \A f \in Frames :
        "deploy_failed" \in f.ev =>
            /\ f.exit_code # "USER_TF_EXEC_COMMIT"
            /\ \A i \in DOMAIN fs.executions :
                  fs.executions[i].execution_id = f.execution_id =>
                      fs.executions[i].exit_code \notin
                          {"USER_TF_EXEC_COMMIT", "USER_TF_EXEC_DESTROY"}

\* The wip tree as exit_manager leaves it for a given code: execution_0
\* carries the exit code.
WipTree(code) ==
    IF Len(fs.wip.dirs) > 0 THEN [fs.wip.dirs EXCEPT ![1].exit_code = code]
    ELSE fs.wip.dirs

\* The persisted execution_* directories of either project stay as they are
\* (a step may move the scope to the other project).
ExecutionsKept ==
    \/ other' = other /\ fs'.executions = fs.executions
    \/ other' = fs /\ fs'.executions = other.executions

DestroyExit == At("exit_manager") /\ runs[Cur].arg = "USER_TF_EXEC_DESTROY"

\* C13: the live executions tree is deleted only on the destroy outcome
\* USER_TF_EXEC_DESTROY, and only after an archive file holding the entire
\* execution history has been written.
C13_PurgeOnlyAfterArchive ==
    [][/\ other' = other /\ fs.executions # <<>> /\ fs'.executions = <<>>
            => DestroyExit
       /\ DestroyExit =>
            /\ fs'.archived
            /\ fs'.archive = WipTree("USER_TF_EXEC_DESTROY")]_vars

\* The input snapshot (yaml/input.tgz) of the execution that
\* get_rollback_execution_choice selected for the run.
TargetSnapshot(f) ==
    LET id == project_execution_history_for_rollback(f)[1].execution_id
        i == CHOOSE j \in DOMAIN fs.wip.dirs : fs.wip.dirs[j].execution_id = id
    IN  fs.wip.dirs[i].input

\* revert_execution ran to its end with a rollback target.
RevertCompletes ==
    /\ At("revert_execution")
    /\ wip_execution_rollback_path(runs[Cur])
    /\ Len(runs') = Len(runs)
    /\ runs'[Cur].pc = "exit_manager"

\* C14: when revert_execution completes with a rollback target, the live
\* input tree equals the input snapshot stored in the selected target
\* execution, not the snapshot of another execution.
C14_RevertRestoresTargetSnapshot ==
    [][RevertCompletes => fs'.input = TargetSnapshot(runs[Cur])]_vars

\* A run started by the user with the apply command (given on the command
\* line or picked in the menu, not put in place of another command) that found
\* no uncommitted blueprint at its start and whose plan was generated without
\* error and holds no change.
ApplyWithNothingToDo(f) ==
    /\ f = runs[1]
    /\ f.is_apply_destroy
    /\ f.terraform_command = "apply"
    /\ "command_overridden" \notin f.ev
    /\ "no_changes" \in f.ev
    /\ "pre_uncommitted" \notin f.ev
    /\ ~fs.bp.uncommitted

\* C20: a user-started apply on a project with no uncommitted blueprint and
\* no change ends with TF_PLAN_NO_CHANGES, the plan is never executed and
\* execution_0 is not committed to the persisted history.
C20_NoChangesNoCommit ==
    runs # <<>> /\ ApplyWithNothingToDo(runs[1]) =>
        LET f == runs[1]
        IN  /\ f.exit_code \in {"INIT", "TF_PLAN_NO_CHANGES"}
            /\ f.pc = "exit_manager" => f.arg = "TF_PLAN_NO_CHANGES"
            /\ f.pc \in {"exit_manager", "exited"}
            /\ "execute" \notin f.ev
            /\ f.execution_id \notin IdsOf(fs.executions)

\* The apply has ended with TF_PLAN_NO_CHANGES on top of a committed history.
C20_EndedWithNoChanges ==
    /\ runs # <<>>
    /\ ApplyWithNothingToDo(runs[1])
    /\ runs[1].pc = "exited"
    /\ runs[1].exit_code = "TF_PLAN_NO_CHANGES"
    /\ fs.executions # <<>>
    /\ ~fs.wip.exists

\* The direct API deletes a run has issued for its destroy.
DeletedForDestroy(f) == {b \in blueprints : delete_tag[b] \in f.ev}

\* The run has executed its destroy plan without error.
DestroySucceeded(f) ==
    /\ f.terraform_command = "destroy"
    /\ "execute" \in f.ev
    /\ "execute_failed" \notin f.ev

\* C19: on a destroy run only the blueprints created in the current project
\* (not those inherited from a parent project) are deleted by direct API
\* call for the destroy, each of these deletes is issued before the destroy
\* plan is executed, and the executions tree is archived and purged only when
\* the destroy succeeded.
C19_DestroyDeletesLocalThenArchives ==
    /\ [](\A f \in Frames :
            /\ DeletedForDestroy(f) \subseteq {"bp_local"}
            /\ DeletedForDestroy(f) # {} => f.terraform_command = "destroy"
            /\ f.terraform_command = "destroy" /\ "execute" \in f.ev
                  => DeletedForDestroy(f) = {"bp_local"})
    /\ [][/\ \A i \in DOMAIN runs' :
                i \in DOMAIN runs
                /\ DeletedForDestroy(runs'[i]) # DeletedForDestroy(runs[i])
                => "execute" \notin runs'[i].ev
          /\ DestroyExit => DestroySucceeded(runs[Cur])
          /\ fs'.archive # fs.archive /\ other' = other => DestroyExit]_vars

\* A destroy that deleted the local blueprint, executed without error and
\* was archived.
C19_DestroyArchived ==
    /\ proc = "exit0"
    /\ \E f \in Frames :
          /\ f.exit_code = "USER_TF_EXEC_DESTROY"
          /\ DeletedForDestroy(f) = {"bp_local"}
          /\ DestroySucceeded(f)
    /\ fs.archived
    /\ fs.archive # <<>>
    /\ fs.executions = <<>>

\* C32: the process never ends otherwise than with status 0: not with
\* sys.exit(1), and not with an exception that leaves run_apaf_terraform.
C32_AlwaysExitsZero == proc \in {"idle", "running", "exit0"}

\* C33: in non-interactive mode no step waits for the user and no menu
\* repeats for ever: a run without a user is never inside the execution-plan
\* menu with nothing left that can end the loop.
C33_NonInteractiveNeverLoops ==
    \A i \in 1..Len(runs) : ~runs[i].interactive => runs[i].pc # "menu_loop"

\* C34: exit_manager never returns to its caller: a run that has called
\* exit_manager with an exit code is inside that call or has ended, and
\* executes no later step (no plan, no apply, no blueprint commit, no second
\* call of exit_manager), also when the clean-up or the follow-up run raises.
C34_ExitManagerNeverReturns ==
    \A i \in 1..Len(runs) :
        runs[i].exit_code # "INIT" => runs[i].pc \in Ended \cup {"in_exit_manager"}

\* C35: the plan tool is never invoked in a run that found uncommitted
\* blueprint changes when it scanned the blueprints before the plan: such a
\* run ends at that check, by the revert or by the exit.
C35_NoPlanAfterUncommitted ==
    \A i \in 1..Len(runs) :
        "pre_uncommitted" \in runs[i].ev => "plan" \notin runs[i].ev

\* C37: every execution record under the executions directory of a project
\* (the persisted history, outside the wip tree) carries the exit code
\* USER_TF_EXEC_COMMIT, USER_TF_EXEC_DESTROY or
\* TF_PLAN_NO_CHANGES_POST_ROLLBACK: no record of an aborted, failed,
\* reverted, blocked or still initialising run is persisted.
C37_OnlySuccessfulRecordsPersisted ==
    \A p \in {fs, other} :
        \A i \in DOMAIN p.executions :
            p.executions[i].exit_code \in
                {"USER_TF_EXEC_COMMIT", "USER_TF_EXEC_DESTROY",
                 "TF_PLAN_NO_CHANGES_POST_ROLLBACK"}

\* A run that reverted left no record, and the follow-up run it launched
\* was committed to the history.
C37_RevertedRunLeftNoRecord ==
    /\ proc = "exit0"
    /\ \E f, g \in Frames :
          /\ f.exit_code = "USER_REVERT"
          /\ f.execution_id # 0
          /\ f.execution_id \notin IdsOf(fs.executions)
          /\ g.exit_code = "USER_TF_EXEC_COMMIT"
          /\ g.execution_id \in IdsOf(fs.executions)

Next ==
    \/ /\ UNCHANGED calls
       /\ \E cmd \in Commands, ia \in BOOLEAN, act \in post_commit_actions,
             edit \in BOOLEAN, switch \in BOOLEAN, staged \in BOOLEAN :
              StartUserRun(cmd, ia, act, edit, switch, staged)
    \/ /\ UNCHANGED calls
       /\ \E invalid \in {"arguments", "command"} : InvalidArguments(invalid)
    \/ /\ UNCHANGED calls
       /\ \E ans \in {"yes", "no"} : BlockedCheck(ans)
    \/ /\ UNCHANGED calls
       /\ \E opt \in {1, 5, 6, 9}, sel \in Commands, ans \in {"yes", "no"} :
              Menu(opt, sel, ans)
    \/ UNCHANGED calls /\ InitialStage
    \/ /\ UNCHANGED calls
       /\ \E decline \in BOOLEAN : PreScan(decline)
    \/ /\ UNCHANGED calls
       /\ \E ans \in {"yes", "no"} : PromptRevert(ans)
    \/ /\ UNCHANGED calls
       /\ \E revisions \in {"some", "none", "fail"}, api \in {"ok", "fail"} :
              RevertExecution(revisions, api)
    \/ /\ UNCHANGED calls
       /\ \E plan_rc \in {0, 1}, show_ok \in BOOLEAN, changes \in BOOLEAN,
             opt \in {1, 2} :
              RunTerraform(plan_rc, show_ok, changes, opt)
    \/ UNCHANGED calls /\ DeleteBps
    \/ /\ UNCHANGED calls
       /\ \E rc \in {0, 1}, staged \in BOOLEAN, errors \in BOOLEAN :
              Execute(rc, staged, errors)
    \/ UNCHANGED calls /\ PostScan
    \/ UNCHANGED calls /\ PostExec
    \/ /\ UNCHANGED calls
       /\ \E ans \in {"yes", "no"}, device_error \in BOOLEAN :
              CommitCheck(ans, device_error)
    \/ /\ UNCHANGED calls
       /\ \E opt \in {1, 3}, ans \in {"yes", "no"} : PostMenu(opt, ans)
    \/ /\ UNCHANGED calls
       /\ \E put \in {202, 409, 500}, poll \in {202, 409, 500} : Deploy(put, poll)
    \/ /\ UNCHANGED calls
       /\ \E tgz \in {"ok", "fail"} : ExitManager(tgz)
    \/ UNCHANGED calls /\ Return

Spec == Init /\ [][Next]_vars
\* ---------------------------------------------------------------------------
\* commit_wip_executions, one filesystem step at a time.
\*
\* An entry of a tree is <<n, tree>>: the item named execution_<n> with the
\* contents it has in the persisted history ("old") or in the working tree
\* ("new").  The working tree __wip__ is a subdirectory of executions_dir.
MaxHistory == 2

MainIdle ==
    /\ runs = <<>>
    /\ proc = "idle"
    /\ nruns = 0
    /\ fs = FreshProject
    /\ other = FreshProject
    /\ scope_post_rollback = FALSE

History(n) == {<<i, "old">> : i \in 0..(n - 1)}
WipContents(n) == {<<i, "new">> : i \in 0..(n - 1)}

CommitInit ==
    /\ MainIdle
    /\ \E h \in 0..MaxHistory, w \in 1..(MaxHistory + 1) :
          commit_call = [pc         |-> "step1",
                         old        |-> History(h),
                         wip        |-> WipContents(w),
                         executions |-> History(h),
                         wip_at     |-> "inside"]
    /\ rotation = Unused
    /\ revert_call = Unused
    /\ cleanup = Unused
    /\ voyager = Unused
    /\ operation = Unused
    /\ diffing = Unused
    /\ history = Unused
    /\ extraction = Unused

CommitAt(p) == commit_call.pc = p

\* Any exception inside the function is logged and the function returns.
CommitRaise(c) == [c EXCEPT !.pc = "failed"]

\* Step 1: the execution_* log files of the working tree are moved into
\* execution_0/log; the executions tree is not touched.
CommitStep1(ok) ==
    /\ CommitAt("step1")
    /\ commit_call' = IF ok THEN [commit_call EXCEPT !.pc = "move_out"]
                      ELSE CommitRaise(commit_call)
    /\ UNCHANGED <<vars, rotation, revert_call, cleanup, voyager, operation, diffing, history, extraction>>

\* Step 2: shutil.move(wip_path, temp_location), a rename within one filesystem.
CommitMoveOut(ok) ==
    /\ CommitAt("move_out")
    /\ commit_call' = IF ok THEN [commit_call EXCEPT !.pc = "clean", !.wip_at = "temp"]
                      ELSE CommitRaise(commit_call)
    /\ UNCHANGED <<vars, rotation, revert_call, cleanup, voyager, operation, diffing, history, extraction>>

\* Step 3: clean_up_directory(executions_dir).  rmtree runs with
\* ignore_errors=True, so the entries in left survive and nothing is raised.
CommitClean(left) ==
    /\ CommitAt("clean")
    /\ left \subseteq commit_call.executions
    /\ commit_call' = [commit_call EXCEPT !.pc = "move_back", !.executions = left]
    /\ UNCHANGED <<vars, rotation, revert_call, cleanup, voyager, operation, diffing, history, extraction>>

\* Step 4: shutil.move(wip_temp_path, executions_dir).  When it raises, leaving
\* the TemporaryDirectory block removes temp_location with the working tree in it.
CommitMoveBack(ok) ==
    /\ CommitAt("move_back")
    /\ commit_call' = IF ok THEN [commit_call EXCEPT !.pc = "copy", !.wip_at = "inside"]
                      ELSE [CommitRaise(commit_call) EXCEPT !.wip_at = "gone"]
    /\ UNCHANGED <<vars, rotation, revert_call, cleanup, voyager, operation, diffing, history, extraction>>

\* The copy loop: one item of os.listdir(wip_path) per step, in listing order
\* (any order).  copytree raises when the destination already exists.
CommitCopy(item, ok) ==
    /\ CommitAt("copy")
    /\ item \in commit_call.wip \ commit_call.executions
    /\ LET exists == \E e \in commit_call.executions : e[1] = item[1]
           copied == commit_call.executions \cup {item}
       IN  commit_call' =
               IF ok /\ ~exists
               THEN [commit_call EXCEPT !.executions = copied,
                                        !.pc = IF commit_call.wip \subseteq copied
                                               THEN "done" ELSE "copy"]
               ELSE CommitRaise(commit_call)
    /\ UNCHANGED <<vars, rotation, revert_call, cleanup, voyager, operation, diffing, history, extraction>>

CommitNext ==
    \/ \E ok \in BOOLEAN : CommitStep1(ok)
    \/ \E ok \in BOOLEAN : CommitMoveOut(ok)
    \/ \E left \in SUBSET History(MaxHistory) : CommitClean(left)
    \/ \E ok \in BOOLEAN : CommitMoveBack(ok)
    \/ \E item \in WipContents(MaxHistory + 1), ok \in BOOLEAN : CommitCopy(item, ok)

CommitSpec == CommitInit /\ [][CommitNext]_<<vars, calls>>

\* C11: whenever commit_wip_executions has returned, also after one of its
\* filesystem steps failed, the persisted executions tree holds either the
\* complete pre-commit history or the complete contents of the working tree,
\* never an empty or partially copied tree, and the working tree still exists.
C11_CommitAtomic ==
    commit_call.pc \in {"done", "failed"} =>
        /\ commit_call.executions \in {commit_call.old, commit_call.wip}
        /\ commit_call.wip_at = "inside"


\* ---------------------------------------------------------------------------
\* manage_execution_dirs("initial_stage") over a sequence of runs.
\*
\* A tree is a set of entries <<n, call>>: the directory execution_<n>, created
\* by the call-th beginning of an execution.  T is the retention threshold.
MaxThreshold == 2
MaxCalls == 5

RECURSIVE sort(_)
sort(numbers) ==
    IF numbers = {} THEN <<>>
    ELSE LET least == CHOOSE n \in numbers : \A o \in numbers : n <= o
         IN  <<least>> \o sort(numbers \ {least})

reversed(seq) == [i \in 1..Len(seq) |-> seq[Len(seq) + 1 - i]]

\* Variant used to test the sensitivity of C12: the rename loop walks the
\* directories in ascending order.
rename_order_ascending(execution_dirs) == execution_dirs

\* for folder in reversed(execution_dirs)
rename_order(execution_dirs) == reversed(execution_dirs)

\* The rename loop over the folders still to visit.  os.rename onto an
\* existing (non-empty) directory raises and ends manage_execution_dirs.
RECURSIVE rename_folders(_, _, _)
rename_folders(tree, folders, T) ==
    IF folders = <<>> THEN [tree |-> tree, raised |-> FALSE]
    ELSE LET folder_num == Head(folders)
             new_dir_num == folder_num + 1
             folder == CHOOSE e \in tree : e[1] = folder_num
         IN  IF new_dir_num > T
             THEN rename_folders(tree \ {folder}, Tail(folders), T)
             ELSE IF \E e \in tree : e[1] = new_dir_num
             THEN [tree |-> tree, raised |-> TRUE]
             ELSE rename_folders((tree \ {folder}) \cup {<<new_dir_num, folder[2]>>},
                                 Tail(folders), T)

\* The wip tree after the initial stage of the call-th execution.
initial_stage(wip, call, T) ==
    LET execution_dirs == sort({e[1] : e \in wip})
        renamed == rename_folders(wip, rename_order(execution_dirs), T)
    IN  IF renamed.raised \/ \E e \in renamed.tree : e[1] = 0
        THEN renamed.tree
        ELSE renamed.tree \cup {<<0, call>>}

RotationInit ==
    /\ MainIdle
    /\ \E T \in 0..MaxThreshold :
          rotation = [pc |-> "idle", T |-> T, calls |-> 0,
                      executions |-> {}, wip |-> {}]
    /\ commit_call = Unused
    /\ revert_call = Unused
    /\ cleanup = Unused
    /\ voyager = Unused
    /\ operation = Unused
    /\ diffing = Unused
    /\ history = Unused
    /\ extraction = Unused

\* replace_directory_contents(wip_path, executions_dir), then the initial stage.
BeginExecution ==
    /\ rotation.pc = "idle"
    /\ rotation.calls < MaxCalls
    /\ rotation' = [rotation EXCEPT
           !.pc = "wip",
           !.calls = @ + 1,
           !.wip = initial_stage(rotation.executions, rotation.calls + 1, rotation.T)]
    /\ UNCHANGED <<vars, commit_call, revert_call, cleanup, voyager, operation, diffing, history, extraction>>

\* exit_manager with a successful exit code: the wip tree becomes the
\* executions tree and is removed.
CommitExecution ==
    /\ rotation.pc = "wip"
    /\ rotation' = [rotation EXCEPT !.pc = "idle", !.executions = rotation.wip,
                                    !.wip = {}]
    /\ UNCHANGED <<vars, commit_call, revert_call, cleanup, voyager, operation, diffing, history, extraction>>

\* exit_manager with any other exit code: the wip tree is removed.
DiscardExecution ==
    /\ rotation.pc = "wip"
    /\ rotation' = [rotation EXCEPT !.pc = "idle", !.wip = {}]
    /\ UNCHANGED <<vars, commit_call, revert_call, cleanup, voyager, operation, diffing, history, extraction>>

RotationNext ==
    \/ BeginExecution
    \/ CommitExecution
    \/ DiscardExecution

RotationSpec == RotationInit /\ [][RotationNext]_<<vars, calls>>

\* C12: over every sequence of beginnings of an execution with retention
\* threshold T, neither tree ever holds more than T+1 execution_* directories;
\* a beginning moves every existing directory from index n to index n+1
\* (dropping it when n+1 exceeds T) without one directory replacing another,
\* and execution_0 is the directory of the most recent call.
C12_RotationBounded ==
    /\ [](/\ Cardinality(rotation.wip) <= rotation.T + 1
          /\ Cardinality(rotation.executions) <= rotation.T + 1
          /\ \A d, e \in rotation.wip : d[1] = e[1] => d = e)
    /\ [][rotation'.calls # rotation.calls =>
            /\ <<0, rotation'.calls>> \in rotation'.wip
            /\ \A e \in rotation.executions :
                  IF e[1] + 1 <= rotation.T
                  THEN <<e[1] + 1, e[2]>> \in rotation'.wip
                  ELSE \A d \in rotation'.wip : d[2] # e[2]
            /\ Cardinality(rotation'.wip) <= Cardinality(rotation.executions) + 1
         ]_<<vars, calls>>

\* An execution began on a full history: the oldest directory was dropped.
C12_OldestDropped ==
    /\ rotation.pc = "wip"
    /\ rotation.T >= 1
    /\ Cardinality(rotation.executions) = rotation.T + 1
    /\ Cardinality(rotation.wip) = rotation.T + 1


\* ---------------------------------------------------------------------------
\* revert_execution(revert_to_last_exec), one step at a time.
\*
\* wip[1] is execution_0, the execution being reverted; wip[k + 1] is
\* execution_k, committed k executions ago.  An input snapshot is the number
\* of the execution whose run wrote that input tree.
MaxBps == 2

committed_exit_codes == {"USER_TF_EXEC_COMMIT", "TF_PLAN_NO_CHANGES_POST_ROLLBACK"}

\* The input tree a committed execution ran on: a post-rollback execution
\* runs on the input tree its predecessor's revert restored.
RECURSIVE InputOf(_, _)
InputOf(codes, k) ==
    IF codes[k] = "TF_PLAN_NO_CHANGES_POST_ROLLBACK" /\ k < Len(codes)
    THEN InputOf(codes, k + 1)
    ELSE Len(codes) + 1 - k

WipOf(codes) ==
    <<[execution_id |-> Len(codes) + 1, exit_code |-> "INIT",
       input |-> Len(codes) + 1]>>
    \o [k \in 1..Len(codes) |->
           [execution_id |-> Len(codes) + 1 - k, exit_code |-> codes[k],
            input |-> InputOf(codes, k)]]

Histories ==
    {codes \in UNION {[1..h -> committed_exit_codes] : h \in 0..MaxHistory} :
        codes # <<>> => codes[Len(codes)] = "USER_TF_EXEC_COMMIT"}

UncommittedBps ==
    UNION {[1..n -> [blueprint : 1..MaxBps, revisions : {"some", "none"}]] :
              n \in 0..MaxBps}

RevertInit ==
    /\ MainIdle
    /\ \E to_last \in BOOLEAN, codes \in Histories, bps \in UncommittedBps :
          /\ \A i, j \in DOMAIN bps : bps[i].blueprint = bps[j].blueprint => i = j
          /\ revert_call =
                [pc                       |-> "choose",
                 revert_to_last_exec      |-> to_last,
                 wip                      |-> WipOf(codes),
                 input                    |-> Len(codes) + 1,
                 rollback_data            |-> NoFile,
                 first_execution_reverted |-> FALSE,
                 uncommitted_bps          |-> bps,
                 next_bp                  |-> 1,
                 api_calls                |-> <<>>]
    /\ commit_call = Unused
    /\ rotation = Unused
    /\ cleanup = Unused
    /\ voyager = Unused
    /\ operation = Unused
    /\ diffing = Unused
    /\ history = Unused
    /\ extraction = Unused

\* get_project_rollback_history on the history read at the initial stage.
rollback_history(r) ==
    SelectSeq(Tail(r.wip),
              LAMBDA e : e.exit_code \in list_successful_exit_codes
                         /\ e.execution_id # r.wip[1].execution_id)

\* get_rollback_execution_choice: choice is "last" or the number typed at
\* prompt_rollback_execution_choice.  rollback_data is the execution_id of the
\* selected execution.
RevertChoose(choice) ==
    /\ revert_call.pc = "choose"
    /\ LET r == revert_call
           number_of_executions == Len(rollback_history(r))
           last == r.revert_to_last_exec
       IN  /\ ~last => choice \in 1..number_of_executions
           /\ last => choice = 1
           /\ revert_call' =
                 IF last /\ number_of_executions = 0
                 THEN [r EXCEPT !.pc = "restore", !.first_execution_reverted = TRUE]
                 ELSE [r EXCEPT !.pc = "restore",
                                !.rollback_data = rollback_history(r)[choice].execution_id]
    /\ UNCHANGED <<vars, commit_call, rotation, cleanup, voyager, operation, diffing, history, extraction>>

\* The input folder is replaced by the contents of execution_0's
\* input.tgz.rollback, the copy of execution_1's input.tgz made at the
\* initial stage.
RevertRestore ==
    /\ revert_call.pc = "restore"
    /\ LET r == revert_call
           wip_execution_0_input_tgz_rollback_file ==
               IF Len(r.wip) > 1 THEN r.wip[2].input ELSE NoFile
           restore == /\ ~r.first_execution_reverted
                      /\ wip_execution_0_input_tgz_rollback_file # NoFile
       IN  revert_call' =
              [r EXCEPT !.input = IF restore THEN wip_execution_0_input_tgz_rollback_file
                                  ELSE @,
                        !.pc = IF r.revert_to_last_exec /\ r.uncommitted_bps # <<>>
                               THEN "blueprints" ELSE "non_bp"]
    /\ UNCHANGED <<vars, commit_call, rotation, cleanup, voyager, operation, diffing, history, extraction>>

\* One turn of the loop over the uncommitted blueprints.
\*   api: "fail" when the request of get_bp_revision_list fails; the function
\*        then returns None and len(None) raises out of revert_execution.
RevertBlueprint(api) ==
    /\ revert_call.pc = "blueprints"
    /\ LET r == revert_call
           bp == r.uncommitted_bps[r.next_bp]
           call == IF bp.revisions = "some" THEN <<"revert_bp", bp.blueprint>>
                   ELSE <<"delete_bps", bp.blueprint>>
       IN  revert_call' =
              IF api = "fail" THEN [r EXCEPT !.pc = "raised"]
              ELSE [r EXCEPT !.api_calls = Append(@, call),
                             !.next_bp = @ + 1,
                             !.pc = IF r.next_bp = Len(r.uncommitted_bps)
                                    THEN "non_bp" ELSE "blueprints"]
    /\ UNCHANGED <<vars, commit_call, rotation, cleanup, voyager, operation, diffing, history, extraction>>

\* get_non_bp_changes_tgz and remove_non_bp_added, then the function returns.
RevertNonBp ==
    /\ revert_call.pc = "non_bp"
    /\ revert_call' = [revert_call EXCEPT !.pc = "done"]
    /\ UNCHANGED <<vars, commit_call, rotation, cleanup, voyager, operation, diffing, history, extraction>>

RevertNext ==
    \/ \E choice \in 1..MaxHistory : RevertChoose(choice)
    \/ RevertRestore
    \/ \E api \in {"ok", "fail"} : RevertBlueprint(api)
    \/ RevertNonBp

RevertSpec == RevertInit /\ [][RevertNext]_<<vars, calls>>

\* The input snapshot stored in the execution selected as rollback target.
SelectedSnapshot(r) ==
    LET i == CHOOSE j \in DOMAIN r.wip : r.wip[j].execution_id = r.rollback_data
    IN  r.wip[i].input

C15_EveryPendingBlueprintHandled ==
    /\ revert_call.pc \in {"done", "raised"}
    /\ revert_call.revert_to_last_exec
    => \A i \in DOMAIN revert_call.uncommitted_bps :
          LET bp == revert_call.uncommitted_bps[i]
          IN  \E c \in DOMAIN revert_call.api_calls :
                 revert_call.api_calls[c] =
                     IF bp.revisions = "some" THEN <<"revert_bp", bp.blueprint>>
                     ELSE <<"delete_bps", bp.blueprint>>


\* ---------------------------------------------------------------------------
\* The non-blueprint cleanup of a revert: the diff between the input snapshot
\* of the execution being reverted (current) and the one of the rollback
\* target (previous), and remove_non_bp_added over that diff, one delete call
\* at a time.
\*
\* An object is [apstra_object, name]: an entry of the list apstra_object in
\* design.yml or resources.yml.
MaxObjects == 2

non_blueprint_menus == {"resources", "design"}

design_objects ==
    {"templates", "racks", "logical_devices", "interface_maps", "configlets",
     "property_sets"}

resources_objects == {"ipv4_pools", "ipv6_pools", "vni_pools", "asn_pools"}

menu_of(apstra_object) ==
    IF apstra_object \in resources_objects THEN "resources" ELSE "design"

Names == {"A", "B"}

Objects == [apstra_object : design_objects \cup resources_objects, name : Names]

\* What DeepDiff(previous, current, ignore_order=True) reports:
\*   pairs: the <<old, new>> objects it matches as one object whose 'name'
\*          changed (values_changed on the name attribute);
\*   grown: the objects present in both snapshots in which a list attribute
\*          gained a plain value (iterable_item_added below the object).
DeepDiff(previous, current, pairs, grown) ==
    {[change_type |-> "values_changed", apstra_object |-> pr[1].apstra_object,
      attribute |-> "name", old_value |-> pr[1].name, new_value |-> pr[2].name] :
        pr \in pairs}
    \cup
    {[change_type |-> "iterable_item_added", apstra_object |-> o.apstra_object,
      attribute |-> "item", old_value |-> "", new_value |-> o.name] :
        o \in (current \ previous) \ {pr[2] : pr \in pairs}}
    \cup
    {[change_type |-> "iterable_item_removed", apstra_object |-> o.apstra_object,
      attribute |-> "item", old_value |-> o.name, new_value |-> ""] :
        o \in (previous \ current) \ {pr[1] : pr \in pairs}}
    \cup
    {[change_type |-> "iterable_item_added", apstra_object |-> o.apstra_object,
      attribute |-> "value", old_value |-> "", new_value |-> o.name] :
        o \in grown}

\* An entry of an added / changed / removed list: the dictionary of an object
\* (it has a 'name') or a plain value (it has none, and no get method).
Entry(kind, name) == [kind |-> kind, name |-> name]

\* Variant used to test the sensitivity of C18: the cleanup reads the removed
\* list of an object type.
deleted_list_removed(change_types) == change_types.removed

\* added_list = change_types.get('added', [])
deleted_list(change_types) == change_types.added

\* process_diff: a change of the 'name' attribute is the removal of the
\* previous entry and the addition of the current one; every other added
\* item is appended to added as DeepDiff reports it.
process_diff(diff) ==
    [apstra_object \in {c.apstra_object : c \in diff} |->
        LET of_object == {c \in diff : c.apstra_object = apstra_object}
        IN  [added   |-> {Entry("object", c.new_value) :
                             c \in {d \in of_object :
                                       \/ d.change_type = "values_changed"
                                       \/ /\ d.change_type = "iterable_item_added"
                                          /\ d.attribute = "item"}}
                         \cup
                         {Entry("value", c.new_value) :
                             c \in {d \in of_object :
                                       /\ d.change_type = "iterable_item_added"
                                       /\ d.attribute = "value"}},
             changed |-> {},
             removed |-> {Entry("object", c.old_value) :
                             c \in {d \in of_object :
                                       \/ d.change_type = "values_changed"
                                       \/ d.change_type = "iterable_item_removed"}}]]

\* get_non_bp_changes: the diff of each menu's YAML file, and for design the
\* configlets whose template file changed, under 'configlet_contents'.
get_non_bp_changes(previous, current, pairs, grown, contents) ==
    LET diff == DeepDiff(previous, current, pairs, grown)
        yaml(menu) == process_diff({c \in diff : menu_of(c.apstra_object) = menu})
        configlet_contents ==
            [added |-> {}, removed |-> {},
             changed |-> {Entry("object", name) : name \in contents}]
    IN  [menu \in non_blueprint_menus |->
            [apstra_object \in DOMAIN yaml(menu)
                              \cup (IF menu = "design" /\ contents # {}
                                    THEN {"configlet_contents"} ELSE {}) |->
                IF apstra_object = "configlet_contents" THEN configlet_contents
                ELSE yaml(menu)[apstra_object]]]

\* The delete function remove_non_bp_added calls for an object type of a menu
\* ("none": the type has no branch in the function).
typed_delete(menu, apstra_object) ==
    CASE menu = "design" /\ apstra_object = "templates"          -> "delete_template"
      [] menu = "design" /\ apstra_object = "racks"              -> "delete_rack_type"
      [] menu = "design" /\ apstra_object = "logical_devices"    -> "delete_logical_device"
      [] menu = "design" /\ apstra_object = "interface_maps"     -> "delete_interface_map"
      [] menu = "design" /\ apstra_object = "configlets"         -> "delete_configlet"
      [] menu = "design" /\ apstra_object = "property_sets"      -> "delete_property_set"
      [] menu = "resources" /\ apstra_object = "ipv4_pools"      -> "delete_ip_pool"
      [] menu = "resources" /\ apstra_object = "ipv6_pools"      -> "delete_ipv6_pool"
      [] menu = "resources" /\ apstra_object = "vni_pools"       -> "delete_vni_pool"
      [] menu = "resources" /\ apstra_object = "asn_pools"       -> "delete_asn_pool"
      [] OTHER                                                   -> "none"

\* Variant used to test the sensitivity of C17: no object type is deleted in
\* a pass of its own.
removed_first_never(menu, apstra_object) == FALSE

\* The object types whose added entries are collected and deleted before the
\* main loop.
removed_first(menu, apstra_object) ==
    menu = "design" /\ apstra_object = "interface_maps"

\* The delete calls of one pass over input_diff, as <<function, name>>.
Deletes(input_diff, first) ==
    {<<typed_delete(menu, apstra_object), e.name>> :
        <<menu, apstra_object, e>> \in
            {<<m, t, x>> \in UNION {UNION {{<<m2, t2, x2>> :
                                               x2 \in deleted_list(input_diff[m2][t2])} :
                                           t2 \in DOMAIN input_diff[m2]} :
                                       m2 \in DOMAIN input_diff} :
                /\ typed_delete(m, t) # "none"
                /\ removed_first(m, t) = first}}
    \cup
    (IF ~first /\ "configlet_contents" \in DOMAIN input_diff["design"]
        /\ deleted_list(input_diff["design"]["configlet_contents"]) = {}
     THEN {<<"delete_configlet", e.name>> :
              e \in input_diff["design"]["configlet_contents"].changed}
     ELSE {})

\* added.get('name', None) raises on an entry that is not a dictionary.
HasPlainValue(input_diff) ==
    \E menu \in DOMAIN input_diff : \E apstra_object \in DOMAIN input_diff[menu] :
        \E e \in deleted_list(input_diff[menu][apstra_object]) : e.kind = "value"

\* The pairs <<previous, current>> of snapshots that differ from the empty
\* snapshot in at most MaxObjects objects.
Snapshots ==
    UNION {{<<{objects[i] : i \in {j \in 1..n : in[j] \in {"previous", "both"}}},
              {objects[i] : i \in {j \in 1..n : in[j] \in {"current", "both"}}}>> :
               <<objects, in>> \in [1..n -> Objects]
                                   \X [1..n -> {"previous", "current", "both"}]} :
           n \in 0..MaxObjects}

CleanupInit ==
    /\ MainIdle
    /\ \E snapshots \in Snapshots :
          LET previous == snapshots[1]
              current == snapshots[2]
              renamed == {pr \in (previous \ current) \X (current \ previous) :
                             pr[1].apstra_object = pr[2].apstra_object}
              configlets == {o.name : o \in {c \in previous \cap current :
                                                c.apstra_object = "configlets"}}
          IN  \E pairs \in SUBSET renamed, grown \in SUBSET (previous \cap current),
                 contents \in SUBSET configlets :
                  /\ \A p, q \in pairs : p[1] = q[1] \/ p[2] = q[2] => p = q
                  /\ cleanup =
                        [pc         |-> "collect",
                         previous   |-> previous,
                         current    |-> current,
                         diff       |-> DeepDiff(previous, current, pairs, grown),
                         input_diff |-> get_non_bp_changes(previous, current, pairs,
                                                           grown, contents),
                         pending    |-> {},
                         api_calls  |-> <<>>]
    /\ commit_call = Unused
    /\ rotation = Unused
    /\ revert_call = Unused
    /\ voyager = Unused
    /\ operation = Unused
    /\ diffing = Unused
    /\ history = Unused
    /\ extraction = Unused

\* A pass with nothing left to delete is over.
CleanupPass(c) ==
    IF c.pending # {} THEN c
    ELSE IF c.pc = "first"
    THEN LET rest == Deletes(c.input_diff, FALSE)
         IN  [c EXCEPT !.pending = rest,
                       !.pc = IF rest = {} THEN "done" ELSE "main"]
    ELSE [c EXCEPT !.pc = "done"]

\* The first loop: the names of the added interface maps are collected.  An
\* exception is caught by the function's own handler, which logs and returns.
CleanupCollect ==
    /\ cleanup.pc = "collect"
    /\ cleanup' =
          IF HasPlainValue(cleanup.input_diff)
          THEN [cleanup EXCEPT !.pc = "raised"]
          ELSE CleanupPass([cleanup EXCEPT
                               !.pc = "first",
                               !.pending = Deletes(cleanup.input_diff, TRUE)])
    /\ UNCHANGED <<vars, commit_call, rotation, revert_call, voyager, operation, diffing, history, extraction>>

\* One delete call (the order inside a pass is the order of the diff's
\* dictionaries and lists: any order).  The delete functions catch the errors
\* of their request, so the pass goes on whatever the server answers.
CleanupDelete(call) ==
    /\ cleanup.pc \in {"first", "main"}
    /\ call \in cleanup.pending
    /\ cleanup' = CleanupPass([cleanup EXCEPT !.pending = @ \ {call},
                                              !.api_calls = Append(@, call)])
    /\ UNCHANGED <<vars, commit_call, rotation, revert_call, voyager, operation, diffing, history, extraction>>

CleanupNext ==
    \/ CleanupCollect
    \/ \E call \in {"delete_template", "delete_rack_type", "delete_logical_device",
                    "delete_interface_map", "delete_configlet", "delete_property_set",
                    "delete_ip_pool", "delete_ipv6_pool", "delete_vni_pool",
                    "delete_asn_pool"} \X Names : CleanupDelete(call)

CleanupSpec == CleanupInit /\ [][CleanupNext]_<<vars, calls>>


\* The delete call expected for each object type of each menu.
ExpectedDelete ==
    {<<"design", "templates", "delete_template">>,
     <<"design", "racks", "delete_rack_type">>,
     <<"design", "logical_devices", "delete_logical_device">>,
     <<"design", "interface_maps", "delete_interface_map">>,
     <<"design", "property_sets", "delete_property_set">>,
     <<"design", "configlets", "delete_configlet">>,
     <<"resources", "ipv4_pools", "delete_ip_pool">>,
     <<"resources", "ipv6_pools", "delete_ipv6_pool">>,
     <<"resources", "vni_pools", "delete_vni_pool">>,
     <<"resources", "asn_pools", "delete_asn_pool">>}

Issued(call) == \E i \in DOMAIN cleanup.api_calls : cleanup.api_calls[i] = call

CleanupOver == cleanup.pc \in {"done", "raised"}

\* C16: when the cleanup of a rollback is over, the typed delete call has been
\* issued for every object the diff lists as added, for every object type
\* and both menus.
C16_EveryAddedObjectDeleted ==
    CleanupOver =>
        \A t \in ExpectedDelete :
            t[2] \in DOMAIN cleanup.input_diff[t[1]] =>
                \A e \in cleanup.input_diff[t[1]][t[2]].added :
                    e.kind = "object" => Issued(<<t[3], e.name>>)

\* C17: in every cleanup, every delete call for an interface map is issued
\* before any delete call for a logical device.
C17_InterfaceMapsBeforeLogicalDevices ==
    \A i, j \in DOMAIN cleanup.api_calls :
        /\ cleanup.api_calls[i][1] = "delete_interface_map"
        /\ cleanup.api_calls[j][1] = "delete_logical_device"
        => i < j

\* A cleanup that deleted interface maps and logical devices is over.
C17_BothDeleted ==
    /\ cleanup.pc = "done"
    /\ \E n \in Names : Issued(<<"delete_interface_map", n>>)
    /\ \E n \in Names : Issued(<<"delete_logical_device", n>>)

\* The diff of the snapshots {configlet "A"} and {configlet "B"}, reported
\* by DeepDiff as a change of the name.
RenameAToB ==
    /\ cleanup.previous = {[apstra_object |-> "configlets", name |-> "A"]}
    /\ cleanup.current = {[apstra_object |-> "configlets", name |-> "B"]}
    /\ \E c \in cleanup.diff : c.change_type = "values_changed"

\* C18: the cleanup of the diff in which configlet "A" was renamed to "B"
\* with identical contents deletes "B" and issues no delete for "A"; and no
\* cleanup ever issues a delete for an object that the diff lists under
\* removed and not under added.
C18_RemovedNeverDeleted ==
    /\ RenameAToB /\ CleanupOver =>
          cleanup.api_calls = <<(<<"delete_configlet", "B">>)>>
    /\ RenameAToB => ~Issued(<<"delete_configlet", "A">>)
    /\ \A t \in ExpectedDelete :
          t[2] \in DOMAIN cleanup.input_diff[t[1]] =>
              \A e \in cleanup.input_diff[t[1]][t[2]].removed :
                  e \notin cleanup.input_diff[t[1]][t[2]].added
                      => ~Issued(<<t[3], e.name>>)

\* The cleanup of the rename of configlet "A" to "B" is over.
C18_RenameCleaned == RenameAToB /\ cleanup.pc = "done"


\* ---------------------------------------------------------------------------
\* The Time Voyager of one blueprint over a sequence of deploy_bp calls: the
\* part of deploy_bp that follows a completed commit.
\*
\* A revision is [created_at, user_saved]; created_at orders the revisions.
max_permanent_revisions == 25

MaxUnsaved == 1
MaxCommits == 3

\* The revisions the Time Voyager holds when the execution starts: unsaved
\* revisions (commits made outside the framework, or whose keep request
\* failed) followed by saved ones.
TimeVoyager(unsaved, saved) ==
    {[created_at |-> i, user_saved |-> FALSE] : i \in 1..unsaved}
    \cup {[created_at |-> unsaved + i, user_saved |-> TRUE] : i \in 1..saved}

VoyagerInit ==
    /\ MainIdle
    /\ \E unsaved \in 0..MaxUnsaved,
          saved \in (max_permanent_revisions - 1)..max_permanent_revisions :
          voyager = [pc |-> "idle", revisions |-> TimeVoyager(unsaved, saved),
                     clock |-> unsaved + saved, commits |-> 0]
    /\ commit_call = Unused
    /\ rotation = Unused
    /\ revert_call = Unused
    /\ cleanup = Unused
    /\ operation = Unused
    /\ diffing = Unused
    /\ history = Unused
    /\ extraction = Unused

\* get_permanent_revisions
permanent_revisions(revisions) == {r \in revisions : r.user_saved}

\* Variant used to test the sensitivity of C21: the oldest of the saved
\* revisions.
oldest_saved_revision(list_bp_revisions) ==
    {r \in permanent_revisions(list_bp_revisions) :
        \A o \in permanent_revisions(list_bp_revisions) : r.created_at <= o.created_at}

\* get_oldest_revision: min(list_bp_revisions, key=created_at), as a set with
\* at most one element.
get_oldest_revision(list_bp_revisions) ==
    {r \in list_bp_revisions :
        \A o \in list_bp_revisions : r.created_at <= o.created_at}

\* The commit completed: the new revision is in the Time Voyager.
\*   found: get_revision returns it (when it does not, deploy_bp returns).
VoyagerCommit(found) ==
    /\ voyager.pc = "idle"
    /\ voyager.commits < MaxCommits
    /\ voyager' = [voyager EXCEPT
           !.pc = IF found THEN "quota" ELSE "idle",
           !.clock = @ + 1,
           !.commits = @ + 1,
           !.revisions = @ \cup {[created_at |-> voyager.clock + 1,
                                  user_saved |-> FALSE]}]
    /\ UNCHANGED <<vars, commit_call, rotation, revert_call, cleanup, operation, diffing, history, extraction>>

\* The quota check, with remove_revision(get_oldest_revision()).
\*   removed: the DELETE request was answered 202
VoyagerQuota(removed) ==
    /\ voyager.pc = "quota"
    /\ LET full == Cardinality(permanent_revisions(voyager.revisions))
                      >= max_permanent_revisions
       IN  voyager' = [voyager EXCEPT
              !.pc = "keep",
              !.revisions = IF full /\ removed
                            THEN @ \ get_oldest_revision(voyager.revisions)
                            ELSE @]
    /\ UNCHANGED <<vars, commit_call, rotation, revert_call, cleanup, operation, diffing, history, extraction>>

\* keep_revision of the revision just committed.
\*   kept: the revision is user_saved afterwards
VoyagerKeep(kept) ==
    /\ voyager.pc = "keep"
    /\ LET new == [created_at |-> voyager.clock, user_saved |-> FALSE]
       IN  voyager' = [voyager EXCEPT
              !.pc = "idle",
              !.revisions = IF kept /\ new \in @
                            THEN (@ \ {new}) \cup {[new EXCEPT !.user_saved = TRUE]}
                            ELSE @]
    /\ UNCHANGED <<vars, commit_call, rotation, revert_call, cleanup, operation, diffing, history, extraction>>

VoyagerNext ==
    \/ \E found \in BOOLEAN : VoyagerCommit(found)
    \/ \E removed \in BOOLEAN : VoyagerQuota(removed)
    \/ \E kept \in BOOLEAN : VoyagerKeep(kept)

VoyagerSpec == VoyagerInit /\ [][VoyagerNext]_<<vars, calls>>

Saved(revisions) == {r.created_at : r \in {q \in revisions : q.user_saved}}

\* C21: after any sequence of commits the number of user_saved revisions of
\* the blueprint never exceeds 25; a revision is kept only while fewer than 25
\* are saved, and a revision removed to make room is the oldest user_saved
\* one, removed alone.
C21_QuotaEvictsOldestSaved ==
    /\ [](Cardinality(Saved(voyager.revisions)) <= 25)
    /\ [][LET removed == {r \in voyager.revisions :
                             \A q \in voyager'.revisions : q.created_at # r.created_at}
          IN  /\ Saved(voyager'.revisions) \ Saved(voyager.revisions) # {}
                    => Cardinality(Saved(voyager.revisions)) < 25
              /\ \A r \in removed :
                    /\ removed = {r}
                    /\ r.user_saved
                    /\ \A q \in voyager.revisions :
                          q.user_saved => r.created_at <= q.created_at
         ]_<<vars, calls>>


\* ---------------------------------------------------------------------------
\* The request protocol of the blueprint operations: deploy_bp, revert_bp,
\* delete_bp and run_commit_check, request by request, over the operations of
\* one execution.
max_retries == 3
max_poll_attempts == 10

MaxOperations == 2

\* The answer of a request: an HTTP status, or NoResponse when requests raised
\* (connection error, timeout).
NoResponse == 0
Status == {NoResponse, 200, 202, 404, 405, 409, 500}

Operations == {"deploy", "revert", "delete", "commit_check"}
Blueprints == {"bp1", "bp2"}

\* response.raise_for_status(): raises for the 4xx and 5xx statuses only.
raise_for_status(status) == status >= 400 /\ status < 600

\* str(status_code), for the operations that return the status they received.
str(status) ==
    CASE status = 200 -> "200"
      [] status = 202 -> "202"
      [] status = 404 -> "404"
      [] status = 405 -> "405"
      [] status = 409 -> "409"
      [] OTHER -> "500"

\* What an operation returns when an exception reaches its `except Exception`.
on_exception(op) ==
    CASE op = "deploy" -> "None"
      [] op = "revert" -> "500"
      [] op = "delete" -> "None"
      [] OTHER -> "False"

\* The statuses on which the operation sleeps and repeats the request.
retry_statuses(op) == IF op = "delete" THEN {409, 405} ELSE {409}

\* The first request of each operation: run_commit_check has the poll loop
\* only.
first_phase(op) == IF op = "commit_check" THEN "poll" ELSE "initial"

Returns(ended, returned) == [pc |-> "done", ended |-> ended, returned |-> returned]
Continue(phase) == [pc |-> phase, ended |-> "running", returned |-> "-"]

\* Variant used to test the sensitivity of C25: the operation returns as soon
\* as the initial request is accepted, without polling.
accepted_without_poll(op) == Returns("accepted", on_exception(op))

\* An initial request answered 202: the operation enters its poll loop.
accepted(op) == Continue("poll")

\* Variant used to test the sensitivity of C24: one attempt more than
\* max_retries.
attempts_left_inclusive(attempt) == attempt <= max_retries

\* for attempt in range(1, max_retries + 1): another iteration follows.
attempts_left(attempt) == attempt < max_retries

\* Variant used to test the sensitivity of C26: after the poll loop is
\* exhausted the operation goes back to its initial loop.
poll_exhausted_retry(op, attempt) ==
    IF op # "commit_check" /\ attempts_left(attempt)
    THEN Continue("initial")
    ELSE Returns("exhausted", on_exception(op))

\* The end of the poll loop without a terminal answer.
poll_exhausted(op, attempt) ==
    CASE op = "deploy" -> Returns("exhausted", "None")
      [] op = "revert" -> Returns("exhausted", "408")
      [] op = "delete" -> Returns("exhausted", "None")
      [] OTHER -> Returns("exhausted", "False")

\* The end of the initial loop without an accepted request.
retries_exhausted(op) ==
    CASE op = "deploy" -> Returns("exhausted", "None")
      [] op = "revert" -> Returns("exhausted", "409")
      [] OTHER -> Returns("exhausted", "None")

\* The body of the initial loop for the answer to request number `attempt`.
initial_request(op, status, attempt) ==
    IF status = NoResponse THEN Returns("failure", on_exception(op))
    ELSE IF status = 202 THEN accepted(op)
    ELSE IF status \in retry_statuses(op)
         THEN IF attempts_left(attempt) THEN Continue("initial")
              ELSE retries_exhausted(op)
    \* revert_bp evaluates poll_response.status_code before any poll request
    \* was made: UnboundLocalError, caught by its `except Exception`.
    ELSE IF op = "revert" THEN Returns("failure", "500")
    ELSE IF raise_for_status(status) THEN Returns("failure", on_exception(op))
    ELSE IF attempts_left(attempt) THEN Continue("initial")
    ELSE retries_exhausted(op)

\* The body of the poll loop for the answer to poll request number
\* `poll_attempt`.
poll_request(op, status, poll_attempt, attempt) ==
    LET again == IF poll_attempt < max_poll_attempts THEN Continue("poll")
                 ELSE poll_exhausted(op, attempt)
    IN  IF status = NoResponse THEN Returns("failure", on_exception(op))
        ELSE CASE op = "deploy" ->
                    IF status = 202 THEN Returns("success", "None")
                    ELSE IF status = 409 THEN again
                    ELSE IF raise_for_status(status)
                         THEN Returns("failure", "None")
                         ELSE again
               [] op = "revert" ->
                    IF status = 202 THEN Returns("success", "202")
                    ELSE IF status = 409 THEN again
                    ELSE Returns("failure", str(status))
               [] op = "delete" ->
                    IF status = 404 THEN Returns("success", "True")
                    ELSE IF status \in {409, 405} THEN again
                    ELSE IF raise_for_status(status)
                         THEN Returns("failure", "None")
                         ELSE again
               [] OTHER ->
                    IF status = 202 THEN Returns("success", "True")
                    ELSE IF status = 409 THEN again
                    ELSE Returns("failure", "False")

NoOperation ==
    [pc |-> "idle", op |-> "-", bp |-> "-", attempt |-> 0, poll_attempt |-> 0,
     response |-> NoResponse, phase |-> "-", returned |-> "-",
     accepted |-> 0, conflicts |-> 0, polls_409 |-> 0, count |-> 0,
     ended |-> [b \in Blueprints |-> "none"]]

OperationInit ==
    /\ MainIdle
    /\ operation = NoOperation
    /\ commit_call = Unused
    /\ rotation = Unused
    /\ revert_call = Unused
    /\ cleanup = Unused
    /\ voyager = Unused
    /\ diffing = Unused
    /\ history = Unused
    /\ extraction = Unused

\* The execution calls an operation for a blueprint; the previous call has
\* returned.
OperationCall(op, bp) ==
    /\ operation.pc \in {"idle", "done"}
    /\ operation.count < MaxOperations
    /\ operation' = [NoOperation EXCEPT
           !.pc = first_phase(op), !.op = op, !.bp = bp,
           !.count = operation.count + 1,
           !.ended = [operation.ended EXCEPT ![bp] = "running"]]
    /\ UNCHANGED <<vars, commit_call, rotation, revert_call, cleanup, voyager, diffing, history, extraction>>

\* One request of the operation and the handling of its answer, up to the next
\* request or the return.
OperationRequest(status) ==
    /\ operation.pc \in {"initial", "poll"}
    /\ LET o == operation
           attempt == IF o.pc = "initial" THEN o.attempt + 1 ELSE o.attempt
           poll_attempt == IF o.pc = "poll" THEN o.poll_attempt + 1
                           ELSE o.poll_attempt
           next == IF o.pc = "initial"
                   THEN initial_request(o.op, status, attempt)
                   ELSE poll_request(o.op, status, poll_attempt, attempt)
       IN  operation' = [o EXCEPT
              !.pc = next.pc,
              !.attempt = attempt,
              !.poll_attempt = poll_attempt,
              !.response = status,
              !.phase = o.pc,
              !.returned = next.returned,
              !.accepted = IF status = 202 THEN @ + 1 ELSE @,
              !.conflicts = IF o.pc = "initial" /\ status = 409 THEN @ + 1 ELSE @,
              !.polls_409 = IF o.pc = "poll" /\ status = 409 THEN @ + 1 ELSE @,
              !.ended = [@ EXCEPT ![o.bp] = next.ended]]
    /\ UNCHANGED <<vars, commit_call, rotation, revert_call, cleanup, voyager, diffing, history, extraction>>

OperationNext ==
    \/ \E op \in Operations, bp \in Blueprints : OperationCall(op, bp)
    \/ \E status \in Status : OperationRequest(status)

OperationSpec == OperationInit /\ [][OperationNext]_<<vars, calls>>


\* C22: in deploy, revert and delete, in both phases, an HTTP status other
\* than 202 and 409 (and 404 while polling a delete) ends the operation: no
\* further request follows it, and a status that is not 2xx is never a
\* success.
C22_OtherStatusTerminal ==
    LET o == operation
    IN  (/\ o.op \in {"deploy", "revert", "delete"}
         /\ o.phase \in {"initial", "poll"}
         /\ o.response >= 100
         /\ o.response \notin {202, 409}
         /\ ~(o.op = "delete" /\ o.phase = "poll" /\ o.response = 404))
        => /\ o.pc = "done"
           /\ (o.response < 200 \/ o.response > 299) => o.ended[o.bp] # "success"

\* C23: an operation whose poll budget ran out returns something else than
\* what it returns on success (deploy: None, revert: 202, delete and
\* commit-check: True).
C23_PollExhaustionReported ==
    LET o == operation
    IN  (o.pc = "done" /\ o.ended[o.bp] = "exhausted" /\ o.poll_attempt = 10)
        => /\ o.op = "deploy" => o.returned # "None"
           /\ o.op = "revert" => o.returned # "202"
           /\ o.op = "delete" => o.returned # "True"
           /\ o.op = "commit_check" => o.returned # "True"

\* C24: an operation issues at most 3 initial requests and at most 10 poll
\* requests and has budget left for every request it is about to make; when
\* every initial request was answered 409 it has ended exactly after the 3rd,
\* as exhausted.
C24_RequestBudgets ==
    LET o == operation
    IN  /\ o.attempt <= 3
        /\ o.poll_attempt <= 10
        /\ o.pc = "initial" => o.attempt < 3
        /\ o.pc = "poll" => o.poll_attempt < 10
        /\ (o.attempt > 0 /\ o.conflicts = o.attempt)
              => (o.pc = "done") = (o.attempt = 3)
        /\ (o.pc = "done" /\ o.attempt > 0 /\ o.conflicts = o.attempt)
              => o.ended[o.bp] = "exhausted"

C24_GaveUpAfterThreeConflicts ==
    /\ operation.pc = "done"
    /\ operation.conflicts = 3
    /\ operation.op = "deploy"

\* C25: a call of a state-changing operation for a blueprint starts only when
\* the previous call for that blueprint has ended as a success, a terminal
\* failure or a budget exhaustion.
C25_OneCallAtATime ==
    [][\A b \in Blueprints :
          (operation'.count # operation.count /\ operation'.bp = b)
             => operation.ended[b] \in {"none", "success", "failure", "exhausted"}
      ]_<<vars, calls>>

C25_SecondCallSameBlueprint ==
    /\ operation.count = 2
    /\ operation.ended["bp2"] = "none"
    /\ operation.op = "revert"
    /\ operation.attempt = 1

\* C26: when every poll request of a deploy, revert or delete was answered
\* 409, the operation ends with exactly one accepted request, the initial one.
C26_PollingNeverAcceptedTwice ==
    LET o == operation
    IN  (/\ o.op \in {"deploy", "revert", "delete"}
         /\ o.pc = "done"
         /\ o.poll_attempt > 0
         /\ o.polls_409 = o.poll_attempt)
        => o.accepted = 1

C26_TenPollsAllBusy ==
    /\ operation.pc = "done"
    /\ operation.op = "delete"
    /\ operation.poll_attempt = 10
    /\ operation.polls_409 = 10
    /\ operation.accepted = 1


\* ---------------------------------------------------------------------------
\* One comparison of the two snapshots of a menu's YAML file: compare_yaml and
\* process_diff, change by change, for one object type of the file.
\*
\* An object is a dictionary with a 'name' and one more attribute, 'value',
\* whose values have a type.  The object type's entry of the file is either the
\* list of its objects or a dictionary holding that list under 'user_defined'
\* (the two shapes process_diff knows of).
AttributeValues ==
    {[type |-> "int", repr |-> 1], [type |-> "int", repr |-> 2],
     [type |-> "str", repr |-> 1]}

YamlObjects == [name : Names, value : AttributeValues]

NoObject == [name |-> "-", value |-> [type |-> "-", repr |-> 0]]

Shapes == {"list", "user_defined"}

\* The object lists of a snapshot: names are unique within a list.
ObjectLists ==
    {l \in UNION {[1..n -> YamlObjects] : n \in 0..MaxObjects} :
        \A i, j \in DOMAIN l : l[i].name = l[j].name => i = j}

Items(list) == {list[i] : i \in DOMAIN list}

IndexOf(list, object) == CHOOSE i \in DOMAIN list : list[i] = object

Change(change_type, path, attribute, old, new) ==
    [change_type |-> change_type, path |-> path, attribute |-> attribute,
     old_value |-> old, new_value |-> new]

\* compare_yaml: DeepDiff(previous, current, ignore_order=True).
\*   none:  the previous file is empty (yaml.safe_load returns None)
\*   pairs: the <<old, new>> items DeepDiff matches as one changed item; it
\*          reports the attributes in which they differ, with the path of the
\*          old item, and reports every other differing item whole.
compare_yaml(none, previous, current, pairs) ==
    IF none
    THEN {Change("type_changes", 0, "root", NoObject, NoObject)}
    ELSE {Change("values_changed", IndexOf(previous, pr[1]), "name", pr[1], pr[2]) :
             pr \in {q \in pairs : q[1].name # q[2].name}}
         \cup
         {Change(IF pr[1].value.type = pr[2].value.type
                 THEN "values_changed" ELSE "type_changes",
                 IndexOf(previous, pr[1]), "value", pr[1], pr[2]) :
             pr \in {q \in pairs : q[1].value # q[2].value}}
         \cup
         {Change("iterable_item_removed", IndexOf(previous, o), "item", o, NoObject) :
             o \in (Items(previous) \ Items(current)) \ {pr[1] : pr \in pairs}}
         \cup
         {Change("iterable_item_added", IndexOf(current, o), "item", NoObject, o) :
             o \in (Items(current) \ Items(previous)) \ {pr[2] : pr \in pairs}}

\* find_nested_dict_entry(file, apstra_object, 'name', value): the first entry
\* of the object type's list with that name, as a set; nothing when the entry
\* of the object type is not a list of dictionaries.
find_nested_dict_entry(shape, list, value) ==
    IF shape = "list"
    THEN {list[i] : i \in {j \in DOMAIN list :
                              /\ list[j].name = value
                              /\ \A h \in 1..(j - 1) : list[h].name # value}}
    ELSE {}

\* extract_segments(path, 2): the first two segments of the path of a change,
\* which name the object in a list and the 'user_defined' key otherwise.
previous_object(shape, change) == IF shape = "list" THEN change.path ELSE 0

NoResults == [added |-> <<>>, changed |-> <<>>, removed |-> <<>>]

\* A change of the 'name' attribute: removal of the previous entry and addition
\* of the current one, when both are found.
name_change(d, change) ==
    LET previous_entry == find_nested_dict_entry(d.shape, d.previous,
                                                 change.old_value.name)
        current_entry == find_nested_dict_entry(d.shape, d.current,
                                                change.new_value.name)
    IN  [d EXCEPT
           !.list_objects_changed_names = @ \cup {previous_object(d.shape, change)},
           !.results = IF previous_entry # {} /\ current_entry # {}
                       THEN [@ EXCEPT
                               !.removed = Append(@, CHOOSE e \in previous_entry : TRUE),
                               !.added = Append(@, CHOOSE e \in current_entry : TRUE)]
                       ELSE @]

\* Variant used to test the sensitivity of C29: the first execution reports
\* nothing.
first_execution_nothing(d) == d

\* The first execution of a project: every object of the current file is an
\* addition, for both shapes.
first_execution(d) ==
    [d EXCEPT !.results.added = @ \o d.current]

\* The body of process_diff for one change of the diff.
process_change(d, change) ==
    IF change.change_type = "type_changes" /\ change.attribute = "root"
    THEN first_execution(d)
    ELSE IF change.change_type \in {"values_changed", "type_changes"}
    THEN IF change.attribute = "name"
         THEN name_change(d, change)
         ELSE IF previous_object(d.shape, change) \in d.list_objects_changed_names
         THEN d
         \* get_value_at_path(previous_file, previous_object + "['name']"): on
         \* the 'user_defined' list it raises AttributeError and process_diff
         \* returns {}.
         ELSE IF d.shape # "list"
         THEN [d EXCEPT !.pc = "done", !.failed = TRUE, !.results = NoResults]
         ELSE [d EXCEPT !.results.changed =
                  Append(@, [name |-> d.previous[change.path].name,
                             attribute |-> change.attribute])]
    ELSE IF change.change_type = "iterable_item_added"
    THEN [d EXCEPT !.results.added = Append(@, change.new_value)]
    ELSE [d EXCEPT !.results.removed = Append(@, change.old_value)]

DiffInit ==
    /\ MainIdle
    /\ \E shape \in Shapes, none \in BOOLEAN, previous \in ObjectLists,
          current \in ObjectLists :
          /\ none => previous = <<>> /\ current # <<>>
          /\ \E pairs \in SUBSET ((Items(previous) \ Items(current))
                                  \X (Items(current) \ Items(previous))) :
                /\ \A p, q \in pairs : p[1] = q[1] \/ p[2] = q[2] => p = q
                /\ diffing = [pc |-> "process", shape |-> shape, none |-> none,
                              previous |-> previous, current |-> current,
                              yaml_comparison |->
                                  compare_yaml(none, previous, current, pairs),
                              diff |-> compare_yaml(none, previous, current, pairs),
                              change_type |-> "-",
                              list_objects_changed_names |-> {},
                              results |-> NoResults, failed |-> FALSE]
    /\ commit_call = Unused
    /\ rotation = Unused
    /\ revert_call = Unused
    /\ cleanup = Unused
    /\ voyager = Unused
    /\ operation = Unused
    /\ history = Unused
    /\ extraction = Unused

\* One iteration of the inner loop of process_diff.  The changes of one change
\* type are processed together, in the order of DeepDiff's dictionary;
\* list_objects_changed_names is emptied at each change type.
DiffProcess ==
    /\ diffing.pc = "process"
    /\ \E change \in diffing.diff :
          /\ \/ change.change_type = diffing.change_type
             \/ \A c \in diffing.diff : c.change_type # diffing.change_type
          /\ LET d == [diffing EXCEPT
                         !.diff = @ \ {change},
                         !.change_type = change.change_type,
                         !.list_objects_changed_names =
                             IF change.change_type = diffing.change_type
                             THEN @ ELSE {}]
             IN  diffing' = process_change(d, change)
    /\ UNCHANGED <<vars, commit_call, rotation, revert_call, cleanup, voyager, operation, history, extraction>>

\* process_diff returns its results.
DiffReturn ==
    /\ diffing.pc = "process"
    /\ diffing.diff = {}
    /\ diffing' = [diffing EXCEPT !.pc = "done"]
    /\ UNCHANGED <<vars, commit_call, rotation, revert_call, cleanup, voyager, operation, history, extraction>>

DiffNext ==
    \/ DiffProcess
    \/ DiffReturn

DiffSpec == DiffInit /\ [][DiffNext]_<<vars, calls>>

Count(list, entry) == Cardinality({i \in DOMAIN list : list[i] = entry})


\* The names under which the changed list reports something.
ChangedNames == {diffing.results.changed[i].name :
                    i \in DOMAIN diffing.results.changed}

\* C27: when exactly one object's name changed between the two snapshots and
\* nothing else did, the results hold the old object once under removed, the
\* new one once under added, and nothing under changed for either name.
C27_RenameIsRemovedPlusAdded ==
    (diffing.pc = "done" /\ ~diffing.none)
    => \A o \in Items(diffing.previous), n \in Items(diffing.current) :
          (/\ o.name # n.name
           /\ o.value = n.value
           /\ Items(diffing.previous) \ {o} = Items(diffing.current) \ {n})
          => /\ Count(diffing.results.removed, o) = 1
             /\ Count(diffing.results.added, n) = 1
             /\ o.name \notin ChangedNames
             /\ n.name \notin ChangedNames

\* C28: when DeepDiff reports a change of an object's name together with a
\* change of another attribute of the same object, the results hold the old
\* object once under removed, the new one once under added, and nothing under
\* changed for either name, in whatever order the changes were processed.
C28_RenameSuppressesOtherChanges ==
    diffing.pc = "done"
    => \A c, v \in diffing.yaml_comparison :
          (/\ c.attribute = "name"
           /\ v.attribute = "value"
           /\ v.old_value = c.old_value)
          => /\ Count(diffing.results.removed, c.old_value) = 1
             /\ Count(diffing.results.added, c.new_value) = 1
             /\ c.old_value.name \notin ChangedNames
             /\ c.new_value.name \notin ChangedNames

\* C29: against an absent or empty previous snapshot every object of the
\* current snapshot is reported once under added and nothing is reported
\* under changed or removed.
C29_FirstExecutionAllAdded ==
    (/\ diffing.pc = "done"
     /\ diffing.previous = <<>>
     /\ diffing.current # <<>>)
    => /\ \A o \in Items(diffing.current) : Count(diffing.results.added, o) = 1
       /\ Len(diffing.results.added) = Len(diffing.current)
       /\ diffing.results.changed = <<>>
       /\ diffing.results.removed = <<>>

C29_FirstExecutionOfTwoObjects ==
    /\ diffing.pc = "done"
    /\ diffing.none
    /\ diffing.shape = "user_defined"
    /\ Len(diffing.current) = 2
    /\ Len(diffing.results.added) = 2


\* ---------------------------------------------------------------------------
\* One call of get_non_bp_changes, menu by menu, with the template files of
\* the design configlets.
\*
\* A menu's YAML file is, between the two snapshots, the "same" (equal md5),
\* "formatted" (different md5, equal parsed trees: compare_yaml returns an
\* empty dictionary) or "changed".
YamlStates == {"same", "formatted", "changed"}

TemplateFiles == {"a.j2", "b.j2"}

\* The contents of a template file in a snapshot; NoFile: it is not there.
TemplateContents == {NoFile, 1, 2}

\* dict_configlets: name and template_file of the configlets of the current
\* design.yml, in the order of the file.
DictConfiglets ==
    {l \in UNION {[1..n -> [name : Names, template_file : TemplateFiles]] :
                     n \in 0..MaxObjects} :
        \A i, j \in DOMAIN l : l[i].name = l[j].name => i = j}

NoDiff == [structure |-> "none", configlet_contents |-> <<>>]

NonBpInit ==
    /\ MainIdle
    /\ \E dict_configlets \in DictConfiglets,
          previous \in [TemplateFiles -> TemplateContents],
          current \in [TemplateFiles -> TemplateContents],
          resources \in YamlStates, design \in YamlStates :
          diffing = [pc |-> "resources",
                     dict_configlets |-> dict_configlets,
                     previous_configlet |-> previous,
                     current_configlet |-> current,
                     yaml |-> [resources |-> resources, design |-> design],
                     non_bp_diff |-> "unbound",
                     first_iter_configlets |-> TRUE,
                     all_configlet_diff |-> <<>>,
                     iteration |-> 0,
                     non_bp_menus_with_changes |-> <<>>,
                     all_non_bp_diff |-> [resources |-> NoDiff, design |-> NoDiff],
                     raised |-> FALSE]
    /\ commit_call = Unused
    /\ rotation = Unused
    /\ revert_call = Unused
    /\ cleanup = Unused
    /\ voyager = Unused
    /\ operation = Unused
    /\ history = Unused
    /\ extraction = Unused

\* The `except Exception` of get_non_bp_changes: it returns [], {}.
NonBpRaise(d) ==
    [d EXCEPT !.pc = "done", !.raised = TRUE,
              !.non_bp_menus_with_changes = <<>>,
              !.all_non_bp_diff = [resources |-> NoDiff, design |-> NoDiff]]

\* non_bp_diff.update(all_configlet_diff), when a configlet differed.
merge(structure, first_iter_configlets, all_configlet_diff) ==
    [structure |-> structure,
     configlet_contents |-> IF first_iter_configlets THEN <<>>
                            ELSE all_configlet_diff]

\* The part of the loop body that compares the menu's YAML file.
compare_menu(d, menu) ==
    IF d.yaml[menu] = "changed"
    THEN [d EXCEPT
            !.non_bp_menus_with_changes = Append(@, menu),
            !.non_bp_diff = menu,
            !.all_non_bp_diff[menu] =
                IF menu = "design"
                THEN merge(menu, d.first_iter_configlets, d.all_configlet_diff)
                ELSE [structure |-> menu, configlet_contents |-> <<>>]]
    ELSE IF d.yaml[menu] = "formatted"
    \* yaml_comparison is empty: non_bp_diff keeps the value of the previous
    \* menu, or is not bound at all.
    THEN IF d.non_bp_diff = "unbound"
         THEN NonBpRaise(d)
         ELSE [d EXCEPT
                 !.non_bp_menus_with_changes = Append(@, menu),
                 !.all_non_bp_diff[menu] =
                     [structure |-> d.non_bp_diff, configlet_contents |-> <<>>]]
    ELSE IF menu = "design" /\ ~d.first_iter_configlets
    THEN [d EXCEPT
            !.non_bp_menus_with_changes = Append(@, menu),
            !.all_non_bp_diff[menu] =
                [structure |-> "none", configlet_contents |-> d.all_configlet_diff]]
    ELSE d

\* The iteration of the menu loop for 'resources'.
NonBpResources ==
    /\ diffing.pc = "resources"
    /\ LET d == compare_menu(diffing, "resources")
       IN  diffing' = IF d.raised THEN d ELSE [d EXCEPT !.pc = "configlets"]
    /\ UNCHANGED <<vars, commit_call, rotation, revert_call, cleanup, voyager, operation, history, extraction>>

\* One iteration of the loop over dict_configlets: the template file is
\* compared when it is in both snapshots, and a configlet whose file differs
\* is appended to the changed list of configlet_contents.
NonBpConfiglet ==
    /\ diffing.pc = "configlets"
    /\ diffing.iteration < Len(diffing.dict_configlets)
    /\ LET configlet == diffing.dict_configlets[diffing.iteration + 1]
           previous == diffing.previous_configlet[configlet.template_file]
           current == diffing.current_configlet[configlet.template_file]
           differs == previous # NoFile /\ current # NoFile /\ previous # current
       IN  diffing' = [diffing EXCEPT
              !.iteration = @ + 1,
              !.first_iter_configlets = IF differs THEN FALSE ELSE @,
              !.all_configlet_diff = IF differs THEN Append(@, configlet.name)
                                     ELSE @]
    /\ UNCHANGED <<vars, commit_call, rotation, revert_call, cleanup, voyager, operation, history, extraction>>

\* The rest of the iteration of the menu loop for 'design', and the return.
NonBpDesign ==
    /\ diffing.pc = "configlets"
    /\ diffing.iteration = Len(diffing.dict_configlets)
    /\ diffing' = [compare_menu(diffing, "design") EXCEPT !.pc = "done"]
    /\ UNCHANGED <<vars, commit_call, rotation, revert_call, cleanup, voyager, operation, history, extraction>>

NonBpNext ==
    \/ NonBpResources
    \/ NonBpConfiglet
    \/ NonBpDesign

NonBpSpec == NonBpInit /\ [][NonBpNext]_<<vars, calls>>

\* The configlets of the current design.yml whose template file is in both
\* snapshots with different contents.
ContentsChanged ==
    {diffing.dict_configlets[i].name :
        i \in {j \in DOMAIN diffing.dict_configlets :
                  LET file == diffing.dict_configlets[j].template_file
                  IN  /\ diffing.previous_configlet[file] # NoFile
                      /\ diffing.current_configlet[file] # NoFile
                      /\ diffing.previous_configlet[file]
                            # diffing.current_configlet[file]}}

\* C30: when get_non_bp_changes has returned, the design diff holds one
\* contents-changed entry for each configlet whose template file differs
\* between the snapshots and none for any other configlet, next to the
\* structural diff of design.yml when that file changed.
C30_ConfigletContentsReported ==
    diffing.pc = "done"
    => LET design == diffing.all_non_bp_diff.design
       IN  /\ \A name \in Names :
                 Count(design.configlet_contents, name)
                    = IF name \in ContentsChanged THEN 1 ELSE 0
           /\ design.structure \in {"none", "design"}
           /\ diffing.yaml.design = "changed" => design.structure = "design"

\* The menus get_non_bp_changes returns as changed.
ListedAsChanged ==
    {diffing.non_bp_menus_with_changes[i] :
        i \in DOMAIN diffing.non_bp_menus_with_changes}

\* C38: when a menu's YAML file differs between the snapshots only in
\* formatting (different md5, structurally equal trees), the structural diff
\* returned for that menu is empty, the menu is not listed as changed on
\* account of its YAML file, and a menu whose YAML file did change is still
\* listed with its own diff.
C38_FormattingOnlyIsNoChange ==
    diffing.pc = "done"
    => \A menu \in {"resources", "design"} :
          diffing.yaml[menu] = "formatted"
          => /\ diffing.all_non_bp_diff[menu].structure = "none"
             /\ menu \in ListedAsChanged => menu = "design" /\ ContentsChanged # {}
             /\ \A changed \in {"resources", "design"} \ {menu} :
                    diffing.yaml[changed] = "changed"
                    => /\ changed \in ListedAsChanged
                       /\ diffing.all_non_bp_diff[changed].structure = changed


\* ---------------------------------------------------------------------------
\* The rollback candidates of a project: generate_execution_history,
\* get_project_rollback_history and get_rollback_execution_choice.
\*
\* An execution_id is "apaf_id_<seconds since the epoch>", a string; the ids
\* are modelled by their digits, all of the same length, and compared as
\* strings are.
MaxRecords == 3

Digits == {0, 1}
ExecutionIds == [1..2 -> Digits]

\* An execution_data.yml without the field.
NoId == <<>>
NoExitCode == "-"

ExitCodesOnDisk ==
    {"USER_TF_EXEC_COMMIT", "USER_TF_EXEC_DESTROY",
     "TF_PLAN_NO_CHANGES_POST_ROLLBACK", NoExitCode}

ExecutionData == [execution_id : ExecutionIds \cup {NoId}, exit_code : ExitCodesOnDisk]

\* a < b for two strings of digits
StringLess(a, b) ==
    \E i \in 1..Min(Len(a), Len(b)) :
        /\ a[i] < b[i]
        /\ \A j \in 1..(i - 1) : a[j] = b[j]

\* generate_execution_history keeps the records that have an execution_id.
has_execution_id(execution_data) == execution_data.execution_id # NoId

\* sorted(executions, key=execution_id, reverse=True): descending and stable.
RECURSIVE sorted_reverse(_)
sorted_reverse(executions) ==
    IF executions = <<>> THEN <<>>
    ELSE LET first == CHOOSE i \in DOMAIN executions :
                         /\ \A j \in DOMAIN executions :
                               ~StringLess(executions[i].execution_id,
                                           executions[j].execution_id)
                         /\ \A j \in 1..(i - 1) :
                               StringLess(executions[j].execution_id,
                                          executions[i].execution_id)
             rest == [j \in 1..(Len(executions) - 1) |->
                         IF j < first THEN executions[j] ELSE executions[j + 1]]
         IN  <<executions[first]>> \o sorted_reverse(rest)

\* generate_execution_history for one project.
generate_execution_history(listing) ==
    sorted_reverse(SelectSeq(listing, has_execution_id))

\* Variant used to test the sensitivity of C31: the current execution is not
\* excluded.
filtered_executions_with_current(project_execution_history, execution_id) ==
    SelectSeq(project_execution_history,
              LAMBDA execution : execution.exit_code \in list_successful_exit_codes)

\* The filter of get_project_rollback_history.
filtered_executions(project_execution_history, execution_id) ==
    SelectSeq(project_execution_history,
              LAMBDA execution :
                 /\ execution.exit_code \in list_successful_exit_codes
                 /\ execution.execution_id # execution_id)

get_project_rollback_history(project_execution_history, execution_id) ==
    sorted_reverse(filtered_executions(project_execution_history, execution_id))

NoRollbackData == [execution_id |-> NoId, exit_code |-> NoExitCode]

HistoryInit ==
    /\ MainIdle
    /\ \E listing \in UNION {[1..n -> ExecutionData] : n \in 0..MaxRecords},
          execution_id \in ExecutionIds, revert_to_last_exec \in BOOLEAN :
          history = [pc |-> "read",
                     listing |-> listing,
                     execution_id |-> execution_id,
                     revert_to_last_exec |-> revert_to_last_exec,
                     project_execution_history |-> <<>>,
                     project_execution_history_for_rollback |-> <<>>,
                     rollback_data |-> NoRollbackData,
                     first_execution_reverted |-> FALSE]
    /\ commit_call = Unused
    /\ rotation = Unused
    /\ revert_call = Unused
    /\ cleanup = Unused
    /\ voyager = Unused
    /\ operation = Unused
    /\ diffing = Unused
    /\ extraction = Unused

\* The scope is set up: the execution history of the project is read.
HistoryRead ==
    /\ history.pc = "read"
    /\ history' = [history EXCEPT
          !.pc = "filter",
          !.project_execution_history = generate_execution_history(history.listing)]
    /\ UNCHANGED <<vars, commit_call, rotation, revert_call, cleanup, voyager, operation, diffing, extraction>>

\* revert_execution calls get_project_rollback_history.
HistoryFilter ==
    /\ history.pc = "filter"
    /\ history' = [history EXCEPT
          !.pc = "choose",
          !.project_execution_history_for_rollback =
              get_project_rollback_history(history.project_execution_history,
                                           history.execution_id)]
    /\ UNCHANGED <<vars, commit_call, rotation, revert_call, cleanup, voyager, operation, diffing, extraction>>

\* get_rollback_execution_choice: "last" on the automatic path, the number
\* typed at the prompt otherwise (the prompt accepts 1..number_of_executions;
\* with no candidate it yields no valid choice).
HistoryChoose(choice) ==
    /\ history.pc = "choose"
    /\ LET candidates == history.project_execution_history_for_rollback
           number_of_executions == Len(candidates)
           last == history.revert_to_last_exec
       IN  /\ last => choice = 1
           /\ (~last /\ number_of_executions > 0) => choice <= number_of_executions
           /\ (~last /\ number_of_executions = 0) => choice = 1
           /\ history' =
                 IF last /\ number_of_executions = 0
                 THEN [history EXCEPT !.pc = "done", !.first_execution_reverted = TRUE]
                 ELSE IF choice \in 1..number_of_executions
                 THEN [history EXCEPT !.pc = "done", !.rollback_data = candidates[choice]]
                 ELSE [history EXCEPT !.pc = "done"]
    /\ UNCHANGED <<vars, commit_call, rotation, revert_call, cleanup, voyager, operation, diffing, extraction>>

HistoryNext ==
    \/ HistoryRead
    \/ HistoryFilter
    \/ \E choice \in 1..MaxRecords : HistoryChoose(choice)

HistorySpec == HistoryInit /\ [][HistoryNext]_<<vars, calls>>

\* How many times a record occurs in a list of records.
Occurrences(list, record) == Cardinality({i \in DOMAIN list : list[i] = record})

\* C31: the rollback candidates are the records of the executions directory
\* that have an execution_id, an exit_code among USER_TF_EXEC_COMMIT and
\* USER_TF_EXEC_DESTROY and an id other than the current execution's, each as
\* often as it is on disk and no other record, ordered by execution_id
\* descending; the automatic target is the first candidate, and a selected
\* target is always a candidate.
C31_RollbackCandidates ==
    history.pc \in {"choose", "done"}
    => LET candidates == history.project_execution_history_for_rollback
       IN  /\ \A record \in ExecutionData :
                 Occurrences(candidates, record)
                    = IF /\ record.execution_id # <<>>
                         /\ record.exit_code \in {"USER_TF_EXEC_COMMIT",
                                                  "USER_TF_EXEC_DESTROY"}
                         /\ record.execution_id # history.execution_id
                      THEN Occurrences(history.listing, record)
                      ELSE 0
           /\ \A i, j \in DOMAIN candidates :
                 i < j => ~StringLess(candidates[i].execution_id,
                                      candidates[j].execution_id)
           /\ history.pc = "done" =>
                 /\ (history.revert_to_last_exec /\ candidates # <<>>)
                       => history.rollback_data = candidates[1]
                 /\ history.rollback_data # [execution_id |-> <<>>, exit_code |-> "-"]
                       => \E i \in DOMAIN candidates :
                             history.rollback_data = candidates[i]

C31_LatestOfThreeSelected ==
    /\ history.pc = "done"
    /\ history.revert_to_last_exec
    /\ Len(history.listing) = 3
    /\ Len(history.project_execution_history_for_rollback) = 2
    /\ \E i \in DOMAIN history.listing :
          history.listing[i].execution_id = history.execution_id
    /\ history.rollback_data = history.listing[3]

\* ------------------------------------------------- restore of the input tree
\* revert_execution: the replacement of the project's input folder by the
\* content of the tgz of the execution to revert to.  A tree is a directory
\* that exists or not and the files in it, each <<name, content>>: "current"
\* is what the user had written before the revert, "rollback" what the
\* snapshot holds.
MaxFiles == 2

FileNames == 1..MaxFiles

Trees(content) ==
    {[exists |-> TRUE, files |-> {<<name, content>> : name \in names}] :
        names \in SUBSET FileNames \ {{}}}

\* shutil.rmtree(directory, ignore_errors = True): what cannot be deleted is
\* left in place without an error; `left` is what stays.
remove_directory(directory, left) ==
    IF directory.exists
    THEN [exists |-> left # {}, files |-> left]
    ELSE directory

\* tarfile.open(...).extractall(path): the members are written one after the
\* other; an error (unreadable archive, full disk, no permission) stops the
\* extraction after `count` files, is logged, and False is returned.
extract_tgz_to_dir(tgz, directory, count) ==
    LET extracted == {file \in tgz.files : file[1] <= count}
        names == {file[1] : file \in extracted}
    IN  [exists |-> directory.exists \/ extracted # {},
         files  |-> {file \in directory.files : file[1] \notin names} \cup extracted]

ExtractionInit ==
    /\ MainIdle
    /\ \E input \in Trees("current"), tgz \in Trees("rollback"),
          rollback_file \in BOOLEAN, reverted \in BOOLEAN :
          extraction = [pc                       |-> "restore",
                        first_execution_reverted |-> reverted,
                        \* wip_execution_0_input_tgz_rollback_file, if it exists
                        wip_execution_0_input_tgz_rollback_file |->
                            [tgz EXCEPT !.exists = rollback_file],
                        before                   |-> input,
                        input_path               |-> input]
    /\ commit_call = Unused
    /\ rotation = Unused
    /\ revert_call = Unused
    /\ cleanup = Unused
    /\ voyager = Unused
    /\ operation = Unused
    /\ diffing = Unused
    /\ history = Unused

\* revert_execution: nothing to restore (first execution reverted, or no
\* rollback tgz in execution_0).
ExtractionSkip ==
    /\ extraction.pc = "restore"
    /\ \/ extraction.first_execution_reverted
       \/ ~extraction.wip_execution_0_input_tgz_rollback_file.exists
    /\ extraction' = [extraction EXCEPT !.pc = "returned"]
    /\ UNCHANGED <<vars, commit_call, rotation, revert_call, cleanup, voyager, operation, diffing, history>>

\* revert_execution: remove_directory(self.input_path)
ExtractionRemove ==
    /\ extraction.pc = "restore"
    /\ ~extraction.first_execution_reverted
    /\ extraction.wip_execution_0_input_tgz_rollback_file.exists
    /\ \E left \in SUBSET extraction.input_path.files :
          extraction' = [extraction EXCEPT
              !.pc = "removed",
              !.input_path = remove_directory(@, left)]
    /\ UNCHANGED <<vars, commit_call, rotation, revert_call, cleanup, voyager, operation, diffing, history>>

\* revert_execution: extract_tgz_to_dir(rollback tgz, self.project_path); the
\* value it returns is not looked at, and the rest of revert_execution does
\* not touch the input folder.
ExtractionExtract ==
    /\ extraction.pc = "removed"
    /\ \E count \in 0..MaxFiles :
          extraction' = [extraction EXCEPT
              !.pc = "returned",
              !.input_path = extract_tgz_to_dir(
                                 extraction.wip_execution_0_input_tgz_rollback_file,
                                 @, count)]
    /\ UNCHANGED <<vars, commit_call, rotation, revert_call, cleanup, voyager, operation, diffing, history>>

ExtractionNext ==
    \/ ExtractionSkip
    \/ ExtractionRemove
    \/ ExtractionExtract

ExtractionSpec == ExtractionInit /\ [][ExtractionNext]_<<vars, calls>>

\* C36: when revert_execution has returned, the input folder of the project
\* exists and holds either exactly what it held before the revert or exactly
\* the content of the rollback snapshot, also when the extraction failed.
C36_InputTreeNeverLost ==
    extraction.pc = "returned" =>
        /\ extraction.input_path.exists
        /\ \/ extraction.input_path.files = extraction.before.files
           \/ extraction.input_path.files =
                  extraction.wip_execution_0_input_tgz_rollback_file.files

====
